---------------------------- MODULE Spec2Model ----------------------------
(***************************************************************************)
(* A model of the call-argument resolver of tdx (src/tdx/inspectcall.py):  *)
(* callargs_from_argspec maps a function's argspec and the positional and  *)
(* keyword arguments of a call to a dict of named arguments.  The older    *)
(* resolver of tdxutil, the retry, error-prefix and debug decorators and   *)
(* the key-set validator follow, then the container, file and wrapping    *)
(* helpers, each with a specification of its own in which the variables   *)
(* of the other parts stay idle.                                           *)
(*                                                                         *)
(* Python values are modelled as follows.                                  *)
(*   - a str is a TLA+ string; argument values are strings too, because    *)
(*     the resolver never inspects a value, it only copies it;             *)
(*   - a list or tuple is a sequence (indices 1..n for Python's 0..n-1);   *)
(*   - a dict with str keys is a function whose DOMAIN is its key set      *)
(*     (Python 2 dicts are unordered); the empty dict is <<>>;             *)
(*   - None, where a name is expected, is the string "None", which is a    *)
(*     reserved word of Python and so never a parameter name;              *)
(*   - argspec.defaults is None exactly when no parameter has a default    *)
(*     (inspect.getargspec never yields an empty tuple), so the empty      *)
(*     sequence stands for None there;                                     *)
(*   - the outcome of a call is a record: kind "returned" with the dict    *)
(*     returned, or kind "raised" with the name of the exception.          *)
(***************************************************************************)
EXTENDS Integers, Sequences, FiniteSets, TLC

VARIABLES
    f_argspec,      \* the argspec handed to the resolver
    call_args,      \* the positional arguments of the intercepted call
    call_kwargs,    \* the keyword arguments of the intercepted call
    pc,             \* "call": the resolver is about to run; "done": it has ended
    outcome,        \* how the last run of the resolver ended
    first,          \* a remembered earlier resolution (inputs and outcome)
    retry_call,     \* one call of a retry-wrapped function
    prefix_call,    \* one run of a block or call that prefixes error messages
    debug_call,     \* one call of a debug-wrapped function
    keys_call,      \* one call of check_keys
    dicts_call,     \* one call of add_dicts
    files_call,     \* the files and the calls of the read and write helpers
    wrap_call,      \* a function under layers of decorators
    lookup_call     \* one call of get_by_specifier

vars == <<f_argspec, call_args, call_kwargs, pc, outcome, first,
          retry_call, prefix_call, debug_call, keys_call,
          dicts_call, files_call, wrap_call, lookup_call>>

\* the value of a part's variable in the specifications of the other parts
Idle == [pc |-> "idle"]

---------------------------------------------------------------------------
(* Bounds of the model *)

MaxParams == 2          \* regular parameters of a signature
MaxPositional == 3      \* positional arguments of a call
MaxKeywords == 2        \* keyword arguments of a call
MaxBetween == 2         \* counted resolutions since the remembered one
MaxAttempts == 4        \* the attempts argument of retry
MaxExcArgs == 2         \* the arguments of a raised exception
MaxDelay == 1           \* the delay argument of debug, in seconds
MaxDicts == 3           \* the arguments of add_dicts
MaxOps == 3             \* the reads and writes of one run of the file helpers
MaxLayers == 4          \* the decorators stacked on one function
MaxDepth == 3           \* the error prefix blocks nested in one another

---------------------------------------------------------------------------
(* Python helpers *)

None == "None"

Min(a, b) == IF a < b THEN a ELSE b

\* s[n:] for 0 <= n
SliceFrom(s, n) == IF n >= Len(s) THEN <<>> ELSE SubSeq(s, n + 1, Len(s))

\* the set of the elements of a list (name in f_args is name \in Range(f_args))
Range(s) == {s[i] : i \in 1..Len(s)}

\* d[k] = v
DictSet(d, k, v) == [kk \in (DOMAIN d) \cup {k} |-> IF kk = k THEN v ELSE d[kk]]

Returned(arguments) == [kind |-> "returned", exception |-> None, arguments |-> arguments]

Raised(exception) == [kind |-> "raised", exception |-> exception, arguments |-> <<>>]

NotCalled == [kind |-> "none", exception |-> None, arguments |-> <<>>]

---------------------------------------------------------------------------
(* src/tdx/inspectcall.py *)

\* a variant that leaves the parameter's name out of the placeholder
MissingArgument_nameless(name) == "__missing_argument__"

\* '__missing_argument_{}__'.format(name)
MissingArgument(name) == "__missing_argument_" \o name \o "__"

\* (f_args, f_varargs, f_kwargs, f_defaults) of an argspec
get_signature(argspec) ==
    [f_args     |-> argspec.args,
     f_varargs  |-> argspec.varargs,
     f_kwargs   |-> argspec.keywords,
     f_defaults |-> IF argspec.defaults = <<>> THEN <<>> ELSE argspec.defaults]

\* for name, value in zip(f_args, call_args): arguments[name] = value
\* (the loop from its i-th iteration on)
RECURSIVE ZipAssign(_, _, _, _)
ZipAssign(arguments, f_args, args, i) ==
    IF i > Min(Len(f_args), Len(args))
    THEN arguments
    ELSE ZipAssign(DictSet(arguments, f_args[i], args[i]), f_args, args, i + 1)

\* a variant without the check that the signature declares *varargs
_get_arguments_extra_positional_unchecked(args, kwargs, f_args, f_varargs, f_kwargs) ==
    LET n_f_args == Len(f_args)
        a1 == ZipAssign(<<>>, f_args, args, 1)
        a2 == DictSet(a1, f_varargs, SliceFrom(args, n_f_args))
        a3 == IF f_kwargs # None
              THEN DictSet(a2, f_kwargs, kwargs)
              ELSE a2
    IN  a3

\* a variant that stores all of call_args, not the slice call_args[n_f_args:]
_get_arguments_extra_positional_unsliced(args, kwargs, f_args, f_varargs, f_kwargs) ==
    LET a1 == ZipAssign(<<>>, f_args, args, 1)
        a2 == IF f_varargs # None
              THEN DictSet(a1, f_varargs, args)
              ELSE a1
        a3 == IF f_kwargs # None
              THEN DictSet(a2, f_kwargs, kwargs)
              ELSE a2
    IN  a3

\* a variant that filters the keywords as the other branch does
_get_arguments_extra_positional_filtered(args, kwargs, f_args, f_varargs, f_kwargs) ==
    LET n_f_args == Len(f_args)
        a1 == ZipAssign(<<>>, f_args, args, 1)
        a2 == IF f_varargs # None
              THEN DictSet(a1, f_varargs, SliceFrom(args, n_f_args))
              ELSE a1
        a3 == IF f_kwargs # None
              THEN DictSet(a2, f_kwargs,
                           [k \in {kk \in DOMAIN kwargs : kk \notin Range(f_args)} |-> kwargs[k]])
              ELSE a2
    IN  a3

_get_arguments_extra_positional(args, kwargs, f_args, f_varargs, f_kwargs) ==
    LET n_f_args == Len(f_args)
        a1 == ZipAssign(<<>>, f_args, args, 1)
        a2 == IF f_varargs # None
              THEN DictSet(a1, f_varargs, SliceFrom(args, n_f_args))
              ELSE a1
        a3 == IF f_kwargs # None
              THEN DictSet(a2, f_kwargs, kwargs)
              ELSE a2
    IN  a3

\* a variant whose test for a default is idx_in_defaults > 0
RegularArgument_strict_index(i, args, kwargs, f_args, f_defaults) ==
    LET name == f_args[i]
        n_args == Len(f_args)
        n_positional == Len(args)
        n_no_defaults == n_args - Len(f_defaults)
        idx_in_defaults == (i - 1) - n_no_defaults
    IN  IF (i - 1) < n_positional
        THEN args[i]
        ELSE IF name \in DOMAIN kwargs
             THEN kwargs[name]
             ELSE IF idx_in_defaults > 0
                  THEN f_defaults[idx_in_defaults + 1]
                  ELSE MissingArgument(name)

\* a variant that looks at the keywords before the positional arguments
RegularArgument_keyword_first(i, args, kwargs, f_args, f_defaults) ==
    LET name == f_args[i]
        n_args == Len(f_args)
        n_positional == Len(args)
        n_no_defaults == n_args - Len(f_defaults)
        idx_in_defaults == (i - 1) - n_no_defaults
    IN  IF name \in DOMAIN kwargs
        THEN kwargs[name]
        ELSE IF (i - 1) < n_positional
             THEN args[i]
             ELSE IF idx_in_defaults >= 0
                  THEN f_defaults[idx_in_defaults + 1]
                  ELSE MissingArgument(name)

\* the value the loop body of _get_arguments_no_extra_positional assigns to
\* the parameter at (1-based) position i
RegularArgument(i, args, kwargs, f_args, f_defaults) ==
    LET name == f_args[i]
        n_args == Len(f_args)
        n_positional == Len(args)
        n_no_defaults == n_args - Len(f_defaults)
        idx_in_defaults == (i - 1) - n_no_defaults
    IN  IF (i - 1) < n_positional
        THEN args[i]
        ELSE IF name \in DOMAIN kwargs
             THEN kwargs[name]
             ELSE IF idx_in_defaults >= 0
                  THEN f_defaults[idx_in_defaults + 1]
                  ELSE MissingArgument(name)

\* for i, name in enumerate(f_args): ... (the loop from its i-th iteration on)
RECURSIVE EnumerateAssign(_, _, _, _, _, _)
EnumerateAssign(arguments, i, args, kwargs, f_args, f_defaults) ==
    IF i > Len(f_args)
    THEN arguments
    ELSE EnumerateAssign(
             DictSet(arguments, f_args[i],
                     RegularArgument(i, args, kwargs, f_args, f_defaults)),
             i + 1, args, kwargs, f_args, f_defaults)

\* a variant without the condition: {k: v for k, v in call_kwargs.iteritems()}
UnknownKeywords_unfiltered(kwargs, f_args) == [k \in DOMAIN kwargs |-> kwargs[k]]

\* {k: v for k, v in call_kwargs.iteritems() if k not in f_args}
UnknownKeywords(kwargs, f_args) ==
    [k \in {kk \in DOMAIN kwargs : kk \notin Range(f_args)} |-> kwargs[k]]

\* a variant that, when the signature has no **kwargs, puts the unknown
\* keywords among the arguments themselves (arguments.update(...))
_get_arguments_no_extra_positional_update(args, kwargs, f_args, f_defaults, f_varargs, f_kwargs) ==
    LET a1 == IF f_varargs # None
              THEN DictSet(<<>>, f_varargs, <<>>)
              ELSE <<>>
        a2 == EnumerateAssign(a1, 1, args, kwargs, f_args, f_defaults)
        a3 == IF f_kwargs # None
              THEN DictSet(a2, f_kwargs, UnknownKeywords(kwargs, f_args))
              ELSE a2 @@ UnknownKeywords(kwargs, f_args)
    IN  a3

_get_arguments_no_extra_positional(args, kwargs, f_args, f_defaults, f_varargs, f_kwargs) ==
    LET a1 == IF f_varargs # None
              THEN DictSet(<<>>, f_varargs, <<>>)
              ELSE <<>>
        a2 == EnumerateAssign(a1, 1, args, kwargs, f_args, f_defaults)
        a3 == IF f_kwargs # None
              THEN DictSet(a2, f_kwargs, UnknownKeywords(kwargs, f_args))
              ELSE a2
    IN  a3

\* a variant whose dict of arguments is shared by all calls (it starts from
\* what the previous call left in it, as a mutable default argument would)
callargs_from_argspec_shared(argspec, args, kwargs) ==
    IF "f_argspec" \in DOMAIN kwargs
    THEN Raised("TypeError")
    ELSE LET sig == get_signature(argspec)
         IN  IF Len(args) > Len(sig.f_args)
             THEN Returned(_get_arguments_extra_positional(
                      args, kwargs, sig.f_args, sig.f_varargs, sig.f_kwargs)
                      @@ outcome.arguments)
             ELSE Returned(_get_arguments_no_extra_positional(
                      args, kwargs, sig.f_args, sig.f_defaults,
                      sig.f_varargs, sig.f_kwargs)
                      @@ outcome.arguments)

\* The call callargs_from_argspec(argspec, *args, **kwargs).  Python binds the
\* arguments to the parameters (f_argspec, *call_args, **call_kwargs) before
\* the body runs: a keyword named like the first parameter gives that
\* parameter a second value, which is a TypeError.
callargs_from_argspec(argspec, args, kwargs) ==
    IF "f_argspec" \in DOMAIN kwargs
    THEN Raised("TypeError")
    ELSE LET sig == get_signature(argspec)
         IN  IF Len(args) > Len(sig.f_args)
             THEN Returned(_get_arguments_extra_positional(
                      args, kwargs, sig.f_args, sig.f_varargs, sig.f_kwargs))
             ELSE Returned(_get_arguments_no_extra_positional(
                      args, kwargs, sig.f_args, sig.f_defaults,
                      sig.f_varargs, sig.f_kwargs))

---------------------------------------------------------------------------
(* The inputs: signatures and calls *)

\* argument values; one of them is the string the resolver uses for a
\* missing argument x
Values == {"a", "__missing_argument_x__"}

SeqsUpTo(S, n) == UNION {[1..k -> S] : k \in 0..n}

\* what inspect.getargspec gives for def f(<k parameters, the last
\* Len(defaults) of them defaulted>, *args, **kwargs)
Signatures(maxParams) ==
    UNION {{[args |-> SubSeq(<<"x", "y", "z">>, 1, k), varargs |-> va, keywords |-> kw, defaults |-> d] :
               va \in {None, "args"}, kw \in {None, "kwargs"}, d \in SeqsUpTo(Values, k)} :
           k \in 0..maxParams}

PositionalArgs(maxPositional) == SeqsUpTo(Values, maxPositional)

KeywordArgs(maxKeywords) ==
    UNION {[keys -> Values] : keys \in {K \in SUBSET {"x", "y", "z", "u", "f_argspec"} : Cardinality(K) <= maxKeywords}}

NoFirst ==
    [set |-> FALSE,
     f_argspec |-> [args |-> <<>>, varargs |-> None, keywords |-> None, defaults |-> <<>>],
     call_args |-> <<>>, call_kwargs |-> <<>>, outcome |-> NotCalled, between |-> 0]

\* the parts of the model that a specification does not use are idle: their
\* variables keep one value; active names the parts it uses
IdleExcept(active) ==
    /\ "resolver" \notin active =>
           /\ f_argspec = NoFirst.f_argspec
           /\ call_args = <<>>
           /\ call_kwargs = <<>>
           /\ pc = "idle"
           /\ outcome = NotCalled
           /\ first = NoFirst
    /\ "retry" \notin active => retry_call = Idle
    /\ "prefix" \notin active => prefix_call = Idle
    /\ "debug" \notin active => debug_call = Idle
    /\ "keys" \notin active => keys_call = Idle
    /\ "dicts" \notin active => dicts_call = Idle
    /\ "files" \notin active => files_call = Idle
    /\ "wrap" \notin active => wrap_call = Idle
    /\ "lookup" \notin active => lookup_call = Idle

\* whether the call at hand is the remembered one
SameAsFirst ==
    /\ first.set
    /\ f_argspec = first.f_argspec
    /\ call_args = first.call_args
    /\ call_kwargs = first.call_kwargs

---------------------------------------------------------------------------
(* One resolution of one call *)

Init ==
    /\ IdleExcept({"resolver"})
    /\ f_argspec \in Signatures(MaxParams)
    /\ call_args \in PositionalArgs(MaxPositional)
    /\ call_kwargs \in KeywordArgs(MaxKeywords)
    /\ pc = "call"
    /\ outcome = NotCalled
    /\ first = NoFirst

\* callargs_from_argspec runs on the call at hand.  Its body assigns to none
\* of f_argspec, call_args and call_kwargs.  The harness counts the
\* resolutions of other calls that follow the remembered one.
Resolve ==
    /\ pc = "call"
    /\ outcome' = callargs_from_argspec(f_argspec, call_args, call_kwargs)
    /\ pc' = "done"
    /\ first' = IF first.set /\ ~SameAsFirst
                THEN [first EXCEPT !.between = Min(@ + 1, MaxBetween)]
                ELSE first
    /\ UNCHANGED <<f_argspec, call_args, call_kwargs>>
    /\ UNCHANGED <<retry_call, prefix_call, debug_call, keys_call, dicts_call,
                   files_call, wrap_call, lookup_call>>

Spec == Init /\ [][Resolve]_vars

---------------------------------------------------------------------------
(* Resolution after resolution: the calls of src/tdxutil/tests/test_reflection.py
   and of the examples, with "1", "2", ... for the values 1, 2, ... *)

ExampleSignatures ==
    {[args |-> <<"x", "y", "z">>, varargs |-> None, keywords |-> None, defaults |-> <<>>],
     [args |-> <<"x", "y", "z">>, varargs |-> None, keywords |-> None, defaults |-> <<"2", "3">>],
     [args |-> <<"x">>, varargs |-> "fargs", keywords |-> None, defaults |-> <<>>],
     [args |-> <<"x">>, varargs |-> None, keywords |-> "fkwargs", defaults |-> <<>>],
     [args |-> <<"x", "y">>, varargs |-> "fargs", keywords |-> "fkwargs", defaults |-> <<"2">>]}

InitPure ==
    /\ IdleExcept({"resolver"})
    /\ f_argspec \in ExampleSignatures
    /\ call_args \in {<<>>, <<"1">>, <<"1", "2", "3">>}
    /\ call_kwargs \in ({<<>>, [k \in {"z"} |-> "3"], [k \in {"y", "z"} |-> IF k = "y" THEN "3" ELSE "4"]})
    /\ pc = "call"
    /\ outcome = NotCalled
    /\ first = NoFirst

\* the harness remembers the resolution that has just ended
Remember ==
    /\ pc = "done"
    /\ ~first.set
    /\ first' = [set |-> TRUE, f_argspec |-> f_argspec, call_args |-> call_args,
                 call_kwargs |-> call_kwargs, outcome |-> outcome, between |-> 0]
    /\ UNCHANGED <<f_argspec, call_args, call_kwargs, pc, outcome>>
    /\ UNCHANGED <<retry_call, prefix_call, debug_call, keys_call, dicts_call,
                   files_call, wrap_call, lookup_call>>

\* the next intercepted call arrives
NextCall ==
    /\ pc = "done"
    /\ f_argspec' \in ExampleSignatures
    /\ call_args' \in {<<>>, <<"1">>, <<"1", "2", "3">>}
    /\ call_kwargs' \in ({<<>>, [k \in {"z"} |-> "3"], [k \in {"y", "z"} |-> IF k = "y" THEN "3" ELSE "4"]})
    /\ pc' = "call"
    /\ UNCHANGED <<outcome, first>>
    /\ UNCHANGED <<retry_call, prefix_call, debug_call, keys_call, dicts_call,
                   files_call, wrap_call, lookup_call>>

SpecPure == InitPure /\ [][Resolve \/ Remember \/ NextCall]_vars

---------------------------------------------------------------------------
(* The vocabulary of the claims: a signature's parts, a call's cases and the
   resolved mapping, in the words of the specification *)

positional_params == f_argspec.args

NParams == Len(f_argspec.args)

NDefaults == Len(f_argspec.defaults)

\* the resolver has ended by returning a mapping
Resolved == pc = "done" /\ outcome.kind = "returned"

resolved == outcome.arguments

Excess == Len(call_args) > NParams

VarargsDeclared == f_argspec.varargs # None

VarkwargsDeclared == f_argspec.keywords # None

\* parameter i is given positionally, by keyword, has a default
Positionally(i) == i <= Len(call_args)

ByKeyword(i) == positional_params[i] \in DOMAIN call_kwargs

Defaulted(i) == i > NParams - NDefaults

DefaultOf(i) == f_argspec.defaults[i - (NParams - NDefaults)]

\* the missing-argument sentinel of a parameter, as the documentation spells it
Sentinel(name) == "__missing_argument_" \o name \o "__"

---------------------------------------------------------------------------
(* C1..C10: the resolver callargs_from_argspec *)

\* C1: the resolver is total: for every signature and every call (any
\* positional list, any keyword mapping) it returns a mapping and never raises.
C1_NeverRaises == pc = "done" => outcome.kind = "returned"

\* C2: the key set of the resolved mapping is exactly the regular parameters,
\* plus the *varargs name iff declared, plus the **kwargs name iff declared.
C2_KeySet ==
    Resolved =>
        DOMAIN resolved =
            Range(positional_params)
            \cup (IF VarargsDeclared THEN {f_argspec.varargs} ELSE {})
            \cup (IF VarkwargsDeclared THEN {f_argspec.keywords} ELSE {})

\* a call with excess positional arguments and an unknown keyword, against
\* a signature with **kwargs and without *varargs
C2_Witness ==
    /\ Resolved /\ Excess /\ NParams = 2
    /\ ~VarargsDeclared /\ VarkwargsDeclared
    /\ "u" \in DOMAIN call_kwargs
    /\ DOMAIN resolved = {"x", "y", "kwargs"}

\* C3: without excess positional arguments each parameter is resolved by
\* priority: its positional value, else its keyword value, else its
\* right-aligned default, else the sentinel naming it.
C3_Priority ==
    (Resolved /\ ~Excess) =>
        \A i \in 1..NParams :
            resolved[positional_params[i]] =
                IF Positionally(i) THEN call_args[i]
                ELSE IF ByKeyword(i) THEN call_kwargs[positional_params[i]]
                ELSE IF Defaulted(i) THEN DefaultOf(i)
                ELSE Sentinel(positional_params[i])

\* f(x, y=d) called with y by keyword only: x is missing, and the keyword
\* value of y, which differs from the default, is the one resolved
C3_Witness ==
    /\ Resolved /\ NParams = 2 /\ NDefaults = 1
    /\ call_args = <<>>
    /\ DOMAIN call_kwargs = {"y"}
    /\ call_kwargs["y"] # f_argspec.defaults[1]
    /\ resolved["x"] = "__missing_argument_x__"
    /\ resolved["y"] = call_kwargs["y"]

\* C4 as stated: a parameter given both positionally and by keyword resolves
\* to its positional value and the keyword entry appears nowhere in the
\* result, with or without excess positional arguments.
C4_KeywordDroppedEverywhere ==
    Resolved =>
        \A i \in 1..NParams :
            (Positionally(i) /\ ByKeyword(i)) =>
                /\ resolved[positional_params[i]] = call_args[i]
                /\ VarkwargsDeclared =>
                       positional_params[i] \notin DOMAIN resolved[f_argspec.keywords]

\* C4 as amended: a parameter given both positionally and by keyword resolves
\* to its positional value; without excess positional arguments the keyword
\* entry appears nowhere in the result, and with excess positional arguments
\* it is kept, value unchanged, inside the **kwargs mapping when one is declared.
C4_PositionalWins ==
    Resolved =>
        \A i \in 1..NParams :
            (Positionally(i) /\ ByKeyword(i)) =>
                /\ resolved[positional_params[i]] = call_args[i]
                /\ (VarkwargsDeclared /\ ~Excess) =>
                       positional_params[i] \notin DOMAIN resolved[f_argspec.keywords]
                /\ (VarkwargsDeclared /\ Excess) =>
                       /\ positional_params[i] \in DOMAIN resolved[f_argspec.keywords]
                       /\ resolved[f_argspec.keywords][positional_params[i]] =
                              call_kwargs[positional_params[i]]

\* x given positionally and, with another value, by keyword, in a call with
\* excess positional arguments against a signature with **kwargs: x resolves
\* to the positional value and the keyword entry is inside the **kwargs mapping
C4_Witness ==
    /\ Resolved /\ Excess /\ VarkwargsDeclared
    /\ NParams = 1
    /\ "x" \in DOMAIN call_kwargs
    /\ call_kwargs["x"] # call_args[1]
    /\ resolved["x"] = call_args[1]
    /\ resolved["kwargs"]["x"] = call_kwargs["x"]

\* C5: a declared *varargs slot resolves to the positional arguments beyond
\* the regular parameters, in their order (none when there is no excess);
\* and with excess positional arguments parameter i resolves to argument i.
C5_Varargs ==
    Resolved =>
        /\ VarargsDeclared =>
               resolved[f_argspec.varargs] =
                   [j \in 1..(IF Excess THEN Len(call_args) - NParams ELSE 0) |->
                        call_args[NParams + j]]
        /\ Excess =>
               \A i \in 1..NParams : resolved[positional_params[i]] = call_args[i]

\* f(x, *args) called with three positional arguments of which the last two,
\* the ones *args collects, differ
C5_Witness ==
    /\ Resolved /\ VarargsDeclared
    /\ NParams = 1 /\ Len(call_args) = 3
    /\ call_args[2] # call_args[3]
    /\ resolved["args"] = <<call_args[2], call_args[3]>>
    /\ resolved["x"] = call_args[1]

\* C6: without excess positional arguments a declared **kwargs slot resolves
\* to the keyword mapping restricted to the keys that are no regular
\* parameter, values unchanged.
C6_VarkwargsFiltered ==
    (Resolved /\ ~Excess /\ VarkwargsDeclared) =>
        /\ DOMAIN resolved[f_argspec.keywords] =
               {k \in DOMAIN call_kwargs : k \notin Range(positional_params)}
        /\ \A k \in DOMAIN resolved[f_argspec.keywords] :
               resolved[f_argspec.keywords][k] = call_kwargs[k]

\* f(x, **kwargs) called with x positionally and with the keywords x and u:
\* u is collected, x is not
C6_Witness ==
    /\ Resolved /\ ~Excess /\ VarkwargsDeclared
    /\ NParams = 1 /\ Len(call_args) = 1
    /\ DOMAIN call_kwargs = {"x", "u"}
    /\ DOMAIN resolved["kwargs"] = {"u"}
    /\ resolved["kwargs"]["u"] = call_kwargs["u"]

\* C7: with excess positional arguments a declared **kwargs slot resolves to
\* the whole keyword mapping, unfiltered.
C7_VarkwargsVerbatim ==
    (Resolved /\ Excess /\ VarkwargsDeclared) =>
        resolved[f_argspec.keywords] = call_kwargs

\* excess positional arguments and a keyword naming a regular parameter
C7_Witness ==
    /\ Resolved /\ Excess /\ VarkwargsDeclared
    /\ NParams = 2
    /\ DOMAIN call_kwargs = {"y", "u"}
    /\ DOMAIN resolved["kwargs"] = {"y", "u"}

\* C8: against a signature with no variadic slot the result maps exactly the
\* regular parameters; excess positional arguments and unknown keywords
\* contribute nothing (the result is that of the call without them); and
\* exactly NParams positional arguments resolve to the zip of names and values.
C8_IllegalIgnored ==
    (Resolved /\ ~VarargsDeclared /\ ~VarkwargsDeclared) =>
        /\ DOMAIN resolved = Range(positional_params)
        /\ outcome = callargs_from_argspec(f_argspec, (SubSeq(call_args, 1, Min(Len(call_args), NParams))), ([k \in {kk \in DOMAIN call_kwargs : kk \in Range(positional_params)} |-> call_kwargs[k]]))
        /\ Len(call_args) = NParams =>
               resolved = [name \in Range(positional_params) |->
                              call_args[CHOOSE i \in 1..NParams : positional_params[i] = name]]

\* f(x, y) called with three positional arguments and an unknown keyword
C8_Witness ==
    /\ Resolved /\ ~VarargsDeclared /\ ~VarkwargsDeclared
    /\ NParams = 2 /\ Len(call_args) = 3
    /\ call_args[1] # call_args[2]
    /\ "u" \in DOMAIN call_kwargs
    /\ resolved = [name \in {"x", "y"} |-> IF name = "x" THEN call_args[1] ELSE call_args[2]]

\* the values the call and the signature supply for parameter i
Supplied(i) ==
    (IF Positionally(i) THEN {call_args[i]} ELSE {})
    \cup (IF ByKeyword(i) THEN {call_kwargs[positional_params[i]]} ELSE {})
    \cup (IF Defaulted(i) THEN {DefaultOf(i)} ELSE {})

\* C9 as stated: a parameter resolves to its sentinel if and only if the call
\* gives it no positional and no keyword value and the signature no default.
C9_SentinelIffMissing ==
    Resolved =>
        \A i \in 1..NParams :
            resolved[positional_params[i]] = Sentinel(positional_params[i])
                <=> Supplied(i) = {}

\* C9 as amended: the sentinel of p is the ordinary string
\* '__missing_argument_p__'; a parameter with no positional value, no keyword
\* value and no default resolves to it, and in every call that supplies that
\* string for p neither positionally, by keyword nor as default, p resolves
\* to it only if p is missing that way.
C9_SentinelString ==
    Resolved =>
        \A i \in 1..NParams :
            /\ Supplied(i) = {} =>
                   resolved[positional_params[i]] = Sentinel(positional_params[i])
            /\ Sentinel(positional_params[i]) \notin Supplied(i) =>
                   (resolved[positional_params[i]] = Sentinel(positional_params[i])
                        <=> Supplied(i) = {})

\* f(x, y) called with y by keyword only: x resolves to its sentinel, y does not
C9_Witness ==
    /\ Resolved /\ NParams = 2 /\ NDefaults = 0
    /\ call_args = <<>>
    /\ DOMAIN call_kwargs = {"y"}
    /\ resolved["x"] = "__missing_argument_x__"
    /\ resolved["y"] # "__missing_argument_y__"

---------------------------------------------------------------------------
(* src/tdxutil/reflection.py: the older resolver *)

get_arguments_with_varargs(args, kwargs, f_args, f_varargs, f_kwargs) ==
    LET n_f_args == Len(f_args)
        a1 == ZipAssign(<<>>, f_args, args, 1)
        a2 == IF f_varargs # None
              THEN DictSet(a1, f_varargs, SliceFrom(args, n_f_args))
              ELSE a1
        a3 == IF f_kwargs # None
              THEN DictSet(a2, f_kwargs, kwargs)
              ELSE a2
    IN  a3

\* for name, default in zip(f_args[n_pos_arg:][::-1], f_defaults[::-1]): ...
\* (the loop from its i-th iteration on)
RECURSIVE DefaultedAssign(_, _, _, _, _)
DefaultedAssign(arguments, names, defaults, kwargs, i) ==
    IF i > Min(Len(names), Len(defaults))
    THEN arguments
    ELSE DefaultedAssign(
             DictSet(arguments, names[i],
                     IF names[i] \in DOMAIN kwargs THEN kwargs[names[i]] ELSE defaults[i]),
             names, defaults, kwargs, i + 1)

\* for name in f_args[n_pos_arg:-len(f_defaults)]: ...
\* (the loop from its i-th iteration on)
RECURSIVE UndefaultedAssign(_, _, _, _)
UndefaultedAssign(arguments, names, kwargs, i) ==
    IF i > Len(names)
    THEN arguments
    ELSE UndefaultedAssign(
             DictSet(arguments, names[i],
                     IF names[i] \in DOMAIN kwargs
                     THEN kwargs[names[i]]
                     ELSE "__missing_argument_" \o names[i] \o "__"),
             names, kwargs, i + 1)

\* f_defaults is spec.defaults as inspect.getargspec gives it: None (here the
\* empty sequence) when the signature declares no default.  f_defaults[::-1]
\* and len(f_defaults) are then a TypeError.
get_arguments_no_varargs(args, kwargs, f_args, f_defaults, f_varargs, f_kwargs) ==
    IF f_defaults = <<>>
    THEN Raised("TypeError")
    ELSE LET \* s[::-1]
             Reverse(s) == [i \in 1..Len(s) |-> s[Len(s) + 1 - i]]
             \* s[a:-k] for a >= 0 and k >= 1
             SliceBetween(s, a, k) ==
                 IF a >= Len(s) - k THEN <<>> ELSE SubSeq(s, a + 1, Len(s) - k)
             n_pos_arg == Len(args)
             a1 == IF f_varargs # None
                   THEN DictSet(<<>>, f_varargs, <<>>)
                   ELSE <<>>
             a2 == ZipAssign(a1, f_args, args, 1)
             a3 == DefaultedAssign(a2, Reverse(SliceFrom(f_args, n_pos_arg)),
                                   Reverse(f_defaults), kwargs, 1)
             a4 == UndefaultedAssign(
                       a3, SliceBetween(f_args, n_pos_arg, Len(f_defaults)), kwargs, 1)
             a5 == IF f_kwargs # None
                   THEN DictSet(a4, f_kwargs, UnknownKeywords(kwargs, f_args))
                   ELSE a4
         IN  Returned(a5)

\* get_arguments(f, call_args, call_kwargs), for f with the argspec given
get_arguments(argspec, args, kwargs) ==
    IF Len(args) > Len(argspec.args)
    THEN Returned(get_arguments_with_varargs(
             args, kwargs, argspec.args, argspec.varargs, argspec.keywords))
    ELSE get_arguments_no_varargs(
             args, kwargs, argspec.args, argspec.defaults,
             argspec.varargs, argspec.keywords)

\* get_arguments runs on the call at hand
ResolveOld ==
    /\ pc = "call"
    /\ outcome' = get_arguments(f_argspec, call_args, call_kwargs)
    /\ pc' = "done"
    /\ UNCHANGED <<f_argspec, call_args, call_kwargs, first>>
    /\ UNCHANGED <<retry_call, prefix_call, debug_call, keys_call, dicts_call,
                   files_call, wrap_call, lookup_call>>

SpecOld == Init /\ [][ResolveOld]_vars

\* C11: without excess positional arguments the older resolver returns, for
\* every signature (also one that declares no default), a mapping that gives
\* every regular parameter its positional value, else its keyword value, else
\* its default, else '__missing_argument_<name>__'.
C11_OldResolverTotal ==
    (pc = "done" /\ ~Excess) =>
        /\ outcome.kind = "returned"
        /\ \A i \in 1..NParams :
               /\ positional_params[i] \in DOMAIN resolved
               /\ resolved[positional_params[i]] =
                      IF Positionally(i) THEN call_args[i]
                      ELSE IF ByKeyword(i) THEN call_kwargs[positional_params[i]]
                      ELSE IF Defaulted(i) THEN DefaultOf(i)
                      ELSE Sentinel(positional_params[i])

---------------------------------------------------------------------------
(* src/tdx/decorators.py: retry.  One call of the wrapped function; every
   iteration of the wrapper's loop is a step.  Durations are in hundredths of
   a second and jitter is in percent, so that all numbers are integers. *)

\* (1 + random.uniform(-jitter, jitter)) * wait, for the draw u
randomized_wait(wait, u) == (100 + u) * wait

\* a variant that catches every exception
Caught_everything(kind) == TRUE

\* except exceptions as e: the exception is an instance of a listed type
Caught(kind) == kind = "listed"

\* a variant that compares with ==
GiveUp_exact(failed, attempts) == failed = attempts

\* a variant that compares with >
GiveUp_late(failed, attempts) == failed > attempts

\* if failed >= attempts: raise
GiveUp(failed, attempts) == failed >= attempts

\* a variant that waits before the first retry as well
Waits_always(failed, no_wait_first_retry) == failed >= 1 \/ ~no_wait_first_retry

\* if failed > 1 or (not no_wait_first_retry)
Waits(failed, no_wait_first_retry) == failed > 1 \/ ~no_wait_first_retry

\* a call the wrapper makes: the n-th invocation of f ("call"), time.sleep(w)
\* ("sleep") or warn_f with n_failure = n and next_wait_s = w ("warn")
Event(type, n, w) == [type |-> type, n |-> n, w |-> w]

\* a variant that warns whatever the flag
Warnings_unconditional(warn, n_failure, next_wait_s) == <<Event("warn", n_failure, next_wait_s)>>

\* if warn: warn_f(warn_msg.format(..., n_failure=failed, next_wait_s=next_wait_s))
Warnings(warn, n_failure, next_wait_s) ==
    IF warn THEN <<Event("warn", n_failure, next_wait_s)>> ELSE <<>>

InitRetry ==
    /\ IdleExcept({"retry"})
    /\ \E attempts \in (0 - 1)..MaxAttempts, wait_time \in {1, 3},
          wait_multiplier \in {2, 3}, jitter \in {0, 10},
          no_wait_first_retry \in BOOLEAN, warn \in BOOLEAN :
          retry_call =
              [pc |-> "try",
               attempts |-> attempts, wait_time |-> wait_time,
               wait_multiplier |-> wait_multiplier, jitter |-> jitter,
               no_wait_first_retry |-> no_wait_first_retry, warn |-> warn,
               wait |-> wait_time, failed |-> 0,
               calls |-> 0, last |-> "none", log |-> <<>>,
               value |-> 0, exception |-> ([id |-> 0, kind |-> "none"])]

\* return f(*args, **kwargs): f returns; the n-th invocation returns the value n
RetryReturns ==
    /\ retry_call.pc = "try"
    /\ retry_call' =
           [retry_call EXCEPT
               !.pc = "returned",
               !.calls = @ + 1,
               !.last = "ok",
               !.log = Append(@, Event("call", retry_call.calls + 1, 0)),
               !.value = retry_call.calls + 1]
    /\ UNCHANGED <<f_argspec, call_args, call_kwargs, pc, outcome, first, prefix_call,
                   debug_call, keys_call, dicts_call, files_call, wrap_call,
                   lookup_call>>

\* f raises an exception of a listed type or of another type; the exception
\* of the n-th invocation has the id n
RetryRaises ==
    /\ retry_call.pc = "try"
    /\ \E kind \in {"listed", "unlisted"},
          u \in {0 - retry_call.jitter, 0, retry_call.jitter} :
          LET n == retry_call.calls + 1
              e == [id |-> n, kind |-> kind]
              called == [retry_call EXCEPT
                            !.calls = n,
                            !.last = kind,
                            !.log = Append(@, Event("call", n, 0))]
              failed == retry_call.failed + 1
              waits == Waits(failed, retry_call.no_wait_first_retry)
              next_wait_s == IF waits THEN randomized_wait(retry_call.wait, u) ELSE 0
          IN  retry_call' =
                  IF ~Caught(kind)
                  THEN [called EXCEPT !.pc = "raised", !.exception = e]
                  ELSE IF GiveUp(failed, retry_call.attempts)
                       THEN [called EXCEPT !.pc = "raised", !.exception = e,
                                           !.failed = failed]
                       ELSE [called EXCEPT
                                !.failed = failed,
                                !.wait = IF waits THEN @ * retry_call.wait_multiplier ELSE @,
                                !.log = @ \o Warnings(retry_call.warn, failed, next_wait_s)
                                          \o <<Event("sleep", 0, next_wait_s)>>]
    /\ UNCHANGED <<f_argspec, call_args, call_kwargs, pc, outcome, first, prefix_call,
                   debug_call, keys_call, dicts_call, files_call, wrap_call,
                   lookup_call>>

SpecRetry == InitRetry /\ [][RetryReturns \/ RetryRaises]_vars

---------------------------------------------------------------------------
(* The claims about retry. *)

RetryEnded == retry_call.pc \in {"returned", "raised"}

\* the events of the call in order, and those of one type
Events(type) == SelectSeq(retry_call.log, LAMBDA ev : ev.type = type)

LastEvent == retry_call.log[Len(retry_call.log)]

RECURSIVE Pow(_, _)
Pow(m, k) == IF k = 0 THEN 1 ELSE m * Pow(m, k - 1)

\* C12: for attempts >= 1, f is invoked at most attempts times; the call
\* returns the value of the first successful invocation, which is the last
\* invocation; after attempts listed failures the call raises the exception of
\* the last invocation; once the call has ended no step is possible any more.
C12_AtMostAttempts ==
    (retry_call.pc # "idle" /\ retry_call.attempts >= 1) =>
        /\ retry_call.calls <= retry_call.attempts
        /\ Len(Events("call")) = retry_call.calls
        /\ retry_call.last = "ok" =>
               /\ retry_call.pc = "returned"
               /\ retry_call.value = retry_call.calls
               /\ retry_call.failed = retry_call.calls - 1
               /\ LastEvent = Event("call", retry_call.calls, 0)
        /\ retry_call.pc = "returned" => retry_call.last = "ok"
        /\ retry_call.failed = retry_call.attempts =>
               /\ retry_call.pc = "raised"
               /\ retry_call.exception = [id |-> retry_call.calls, kind |-> "listed"]
               /\ LastEvent = Event("call", retry_call.calls, 0)
        /\ RetryEnded => ~ENABLED (RetryReturns \/ RetryRaises)

C12_Witness ==
    /\ retry_call.pc = "raised"
    /\ retry_call.attempts = 3
    /\ retry_call.failed = 3
    /\ retry_call.calls = 3

\* C13: an exception of f that is not of a listed type ends the call at once,
\* whatever the number of attempts left: the call raises that exception, the
\* failure is not counted, and the invocation is the last event of the call
\* (no warning, no sleep, no further invocation).
C13_UnlistedPropagates ==
    (retry_call.pc # "idle" /\ retry_call.last = "unlisted") =>
        /\ retry_call.pc = "raised"
        /\ retry_call.exception = [id |-> retry_call.calls, kind |-> "unlisted"]
        /\ retry_call.failed = retry_call.calls - 1
        /\ LastEvent = Event("call", retry_call.calls, 0)
        /\ ~ENABLED (RetryReturns \/ RetryRaises)

C13_Witness ==
    /\ retry_call.pc = "raised"
    /\ retry_call.last = "unlisted"
    /\ retry_call.failed = 1
    /\ retry_call.attempts - retry_call.failed >= 2

\* C14: with jitter = 0 the k-th sleep of the call lasts the k-th term of the
\* backoff sequence; invocations and sleeps alternate, starting with an
\* invocation, and a call that has ended ends with an invocation.
C14_Backoff ==
    LET \* the k-th term of the backoff sequence, in hundredths of a second
        Backoff(k) ==
            IF retry_call.no_wait_first_retry
            THEN IF k = 1 THEN 0
                 ELSE 100 * retry_call.wait_time * Pow(retry_call.wait_multiplier, k - 2)
            ELSE 100 * retry_call.wait_time * Pow(retry_call.wait_multiplier, k - 1)
        \* the invocations and sleeps of the call, in order
        CallsAndSleeps == SelectSeq(retry_call.log, LAMBDA ev : ev.type # "warn")
    IN
    (retry_call.pc # "idle" /\ retry_call.jitter = 0) =>
        /\ \A k \in 1..Len(Events("sleep")) : Events("sleep")[k].w = Backoff(k)
        /\ \A i \in 1..Len(CallsAndSleeps) :
               CallsAndSleeps[i].type = IF i % 2 = 1 THEN "call" ELSE "sleep"
        /\ Len(CallsAndSleeps) % 2 = IF RetryEnded THEN 1 ELSE 0
        /\ Len(Events("sleep")) =
               IF retry_call.pc = "raised" /\ retry_call.last = "listed"
               THEN retry_call.failed - 1
               ELSE retry_call.failed

C14_Witness ==
    /\ retry_call.pc = "returned"
    /\ retry_call.jitter = 0
    /\ retry_call.no_wait_first_retry
    /\ retry_call.wait_time = 3
    /\ retry_call.wait_multiplier = 2
    /\ Len(Events("sleep")) = 3
    /\ Events("sleep")[3].w = 600

\* C15: when warn is true every sleep is immediately preceded by one warning
\* that carries the number of failures so far and the duration of that sleep,
\* there are no other warnings, and a call that has ended ends with an
\* invocation; when warn is false there is no warning at all.
C15_Warnings ==
    retry_call.pc # "idle" =>
        /\ ~retry_call.warn => Len(Events("warn")) = 0
        /\ retry_call.warn =>
               /\ Len(Events("warn")) = Len(Events("sleep"))
               /\ \A i \in 1..Len(retry_call.log) :
                      retry_call.log[i].type = "sleep" =>
                          /\ i > 1
                          /\ retry_call.log[i - 1].type = "warn"
                          /\ retry_call.log[i - 1].w = retry_call.log[i].w
               /\ \A k \in 1..Len(Events("warn")) : Events("warn")[k].n = k
        /\ RetryEnded => LastEvent.type = "call"

C15_Witness ==
    /\ retry_call.pc = "raised"
    /\ retry_call.last = "listed"
    /\ retry_call.warn
    /\ retry_call.jitter = 10
    /\ Len(Events("warn")) = 2
    /\ Events("warn")[2].w > 100 * retry_call.wait_time

---------------------------------------------------------------------------
(* src/tdx/exceptions.py and src/tdxutil/exceptions.py: a message prefix for
   the exceptions of a block or of a call.  An exception is its identity, its
   type and its args tuple; the body of the block, the wrapped call and the
   callable that gives the prefix each end by returning or by raising. *)

NoError == [id |-> 0, type |-> None, args |-> <<>>]

Returns(value) == [kind |-> "returned", value |-> value, exception |-> NoError]

Raises(exception) == [kind |-> "raised", value |-> None, exception |-> exception]

NotRun == [kind |-> "none", value |-> None, exception |-> NoError]

\* except Exception: every type of the model but KeyboardInterrupt
IsException(type) == type # "KeyboardInterrupt"

\* a variant that puts the prefix behind the first argument
Prefixed_behind(msg_prefix, args) == <<args[1] \o ":\n" \o msg_prefix>> \o Tail(args)

\* tuple(["%s:\n%s" % (msg_prefix, e.args[0])] + [a for a in e.args[1:]])
Prefixed(msg_prefix, args) == <<msg_prefix \o ":\n" \o args[1]>> \o Tail(args)

\* a variant that keeps only the first argument
lazy_error_prefix_first_only(msg_prefix_f, body) ==
    IF body.kind # "raised" \/ ~IsException(body.exception.type)
    THEN body
    ELSE IF msg_prefix_f.kind = "raised"
         THEN msg_prefix_f
         ELSE IF Len(body.exception.args) = 0
              THEN Raises([body.exception EXCEPT !.args = <<msg_prefix_f.value>>])
              ELSE Raises([body.exception EXCEPT
                              !.args = <<msg_prefix_f.value \o ":\n" \o @[1]>>])

\* with lazy_error_prefix(msg_prefix_f): <body>.  msg_prefix_f is what the
\* call msg_prefix_f() does; an exception it raises leaves the handler in
\* place of the one being handled.
lazy_error_prefix(msg_prefix_f, body) ==
    IF body.kind # "raised" \/ ~IsException(body.exception.type)
    THEN body
    ELSE IF msg_prefix_f.kind = "raised"
         THEN msg_prefix_f
         ELSE IF Len(body.exception.args) = 0
              THEN Raises([body.exception EXCEPT !.args = <<msg_prefix_f.value>>])
              ELSE Raises([body.exception EXCEPT
                              !.args = Prefixed(msg_prefix_f.value, @)])

\* lazy_error_prefix(lambda: msg_prefix)
error_prefix(msg_prefix, body) == lazy_error_prefix(Returns(msg_prefix), body)

\* e.args[0] of an empty tuple
IndexError(e) == [id |-> e.id + 1, type |-> "IndexError", args |-> <<"tuple index out of range">>]

\* tdxutil: try_with_lazy_context(error_context, f, *args, **kwargs), for what
\* error_context() and f(*args, **kwargs) do
try_with_lazy_context(error_context, body) ==
    IF body.kind # "raised" \/ ~IsException(body.exception.type)
    THEN body
    ELSE IF error_context.kind = "raised"
         THEN error_context
         ELSE IF Len(body.exception.args) = 0
              THEN Raises(IndexError(body.exception))
              ELSE Raises([body.exception EXCEPT
                              !.args = Prefixed(error_context.value, @)])

\* try_with_lazy_context(lambda: error_context, f, *args, **kwargs)
try_with_context(error_context, body) == try_with_lazy_context(Returns(error_context), body)

ReturnValues == {"v", None}

\* the exceptions the body may raise; the exception of the body has the id 1
BodyExceptions ==
    {[id |-> 1, type |-> t, args |-> a] : t \in {"ValueError", "KeyError", "KeyboardInterrupt"}, a \in SeqsUpTo({"m", "n"}, MaxExcArgs)}

\* src/tdx/inspectcall.py: the call get_callargs(f, *args, **kwargs), for the
\* argspec of f.  A keyword named like the first parameter of get_callargs
\* gives that parameter a second value (TypeError), and so does one named like
\* the first parameter of callargs_from_argspec, which receives the keywords.
get_callargs(argspec, args, kwargs) ==
    IF "f" \in DOMAIN kwargs
    THEN Raised("TypeError")
    ELSE callargs_from_argspec(argspec, args, kwargs)

\* A context message is the text "ctx" followed by its replacement fields,
\* given as the sequence of their names.
RECURSIVE Braces(_)
Braces(fields) ==
    IF fields = <<>> THEN "" ELSE " {" \o Head(fields) \o "}" \o Braces(Tail(fields))

context_message(fields) == "ctx" \o Braces(fields)

RECURSIVE Filled(_, _)
Filled(fields, arguments) ==
    IF fields = <<>> THEN ""
    ELSE " " \o arguments[Head(fields)] \o Filled(Tail(fields), arguments)

RECURSIVE JoinComma(_)
JoinComma(strings) ==
    IF Len(strings) = 0 THEN ""
    ELSE IF Len(strings) = 1 THEN strings[1]
    ELSE strings[1] \o ", " \o JoinComma(Tail(strings))

\* '%r' of a tuple of strings
ReprTuple(t) ==
    IF Len(t) = 1 THEN "('" \o t[1] \o "',)"
    ELSE "(" \o JoinComma([i \in 1..Len(t) |-> "'" \o t[i] \o "'"]) \o ")"

RECURSIVE Items(_, _)
Items(order, d) ==
    IF order = <<>> THEN <<>>
    ELSE (IF Head(order) \in DOMAIN d
          THEN <<"'" \o Head(order) \o "': '" \o d[Head(order)] \o "'">>
          ELSE <<>>) \o Items(Tail(order), d)

\* '%r' of a dict of strings, its keys listed in one fixed order
ReprDict(d) ==
    "{" \o JoinComma(Items(<<"f", "f_argspec", "x", "y", "z", "u">>, d)) \o "}"

\* error_prefix_from_args.wrapper.format_context_message: get_callargs is
\* called before the try; the exception it raises has the id 2
format_context_message(fields, argspec, args, kwargs) ==
    LET arguments == get_callargs(argspec, args, kwargs)
    IN  IF arguments.kind = "raised"
        THEN Raises([id |-> 2, type |-> arguments.exception,
                     args |-> <<"got multiple values for keyword argument">>])
        \* context_message.format(**arguments) raises KeyError for a field
        \* that is no key
        ELSE IF \A i \in 1..Len(fields) : fields[i] \in DOMAIN arguments.arguments
             THEN Returns("ctx" \o Filled(fields, arguments.arguments))
             ELSE Returns(context_message(fields) \o "\n...FAILED TO FORMAT args="
                          \o ReprTuple(args) \o " kwargs=" \o ReprDict(kwargs))

\* with lazy_error_prefix(format_context_message): return wrapped(*args, **kwargs)
error_prefix_from_args(fields, argspec, args, kwargs, body) ==
    lazy_error_prefix(format_context_message(fields, argspec, args, kwargs), body)

\* the calls of one invocation of msg_prefix_f; format_context_message starts
\* with the call of the resolver
Invocation(via) ==
    IF via = "error_prefix_from_args"
    THEN <<"format_context_message", "get_callargs">>
    ELSE <<"msg_prefix_f">>

\* a variant that computes the prefix on entry
lazy_error_prefix_calls_eager(invocation, body) == invocation \o <<"body">>

\* what is called during one block, in order:
\* try: yield / except Exception as e: msg_prefix = msg_prefix_f() ...
lazy_error_prefix_calls(invocation, body) ==
    <<"body">> \o (IF body.kind # "raised" \/ ~IsException(body.exception.type)
                   THEN <<>>
                   ELSE invocation)

PrefixResult(via, msg_prefix, body) ==
    CASE via = "error_prefix_from_args" ->
             error_prefix_from_args(prefix_call.fields, f_argspec, call_args, call_kwargs, body)
      [] via = "error_prefix" -> error_prefix(msg_prefix, body)
      [] via = "lazy_error_prefix" -> lazy_error_prefix(Returns(msg_prefix), body)
      [] via = "try_with_context" -> try_with_context(msg_prefix, body)
      [] via = "try_with_lazy_context" -> try_with_lazy_context(Returns(msg_prefix), body)

InitPrefix ==
    /\ IdleExcept({"prefix"})
    /\ \E via \in {"error_prefix", "lazy_error_prefix", "try_with_context", "try_with_lazy_context"}, msg_prefix \in {"", "p", "in g"} :
          prefix_call = [pc |-> "body", via |-> via, msg_prefix |-> msg_prefix,
                         fields |-> <<>>, body |-> NotRun, result |-> NotRun,
                         calls |-> <<>>]

\* the body (the call of f) completes
BodyReturns ==
    /\ prefix_call.pc = "body"
    /\ \E v \in ReturnValues :
          prefix_call' =
              [prefix_call EXCEPT
                  !.pc = "done",
                  !.body = Returns(v),
                  !.result = PrefixResult(prefix_call.via, prefix_call.msg_prefix, Returns(v)),
                  !.calls = lazy_error_prefix_calls(Invocation(prefix_call.via), Returns(v))]
    /\ UNCHANGED <<f_argspec, call_args, call_kwargs, pc, outcome, first, retry_call,
                   debug_call, keys_call, dicts_call, files_call, wrap_call,
                   lookup_call>>

\* the body (the call of f) raises
BodyRaises ==
    /\ prefix_call.pc = "body"
    /\ \E e \in BodyExceptions :
          prefix_call' =
              [prefix_call EXCEPT
                  !.pc = "done",
                  !.body = Raises(e),
                  !.result = PrefixResult(prefix_call.via, prefix_call.msg_prefix, Raises(e)),
                  !.calls = lazy_error_prefix_calls(Invocation(prefix_call.via), Raises(e))]
    /\ UNCHANGED <<f_argspec, call_args, call_kwargs, pc, outcome, first, retry_call,
                   debug_call, keys_call, dicts_call, files_call, wrap_call,
                   lookup_call>>

SpecPrefix == InitPrefix /\ [][BodyReturns \/ BodyRaises]_vars

\* the body raised an exception that except Exception catches
BodyFailed ==
    /\ prefix_call.pc = "done"
    /\ prefix_call.body.kind = "raised"
    /\ IsException(prefix_call.body.exception.type)

\* the exception that leaves is the one the body raised, args apart
SameException ==
    /\ prefix_call.result.kind = "raised"
    /\ prefix_call.result.exception.id = prefix_call.body.exception.id
    /\ prefix_call.result.exception.type = prefix_call.body.exception.type

\* C16: when the body of an error_prefix / lazy_error_prefix block raises an
\* Exception, the same exception leaves the block with its first argument
\* replaced by prefix + ":\n" + first argument and the others unchanged, and
\* with the one argument prefix when it had none; when the body completes its
\* result is what leaves.
C16_PrefixedSameException ==
    (prefix_call.pc = "done" /\ prefix_call.via \in {"error_prefix", "lazy_error_prefix"}) =>
        /\ prefix_call.body.kind = "returned" => prefix_call.result = prefix_call.body
        /\ BodyFailed =>
               /\ SameException
               /\ LET old == prefix_call.body.exception.args
                      new == prefix_call.result.exception.args
                  IN  IF Len(old) = 0
                      THEN new = <<prefix_call.msg_prefix>>
                      ELSE /\ Len(new) = Len(old)
                           /\ new[1] = prefix_call.msg_prefix \o ":\n" \o old[1]
                           /\ \A i \in 2..Len(old) : new[i] = old[i]

C16_Witness ==
    /\ prefix_call.pc = "done"
    /\ prefix_call.via = "lazy_error_prefix"
    /\ prefix_call.msg_prefix = "p"
    /\ prefix_call.body = Raises([id |-> 1, type |-> "ValueError", args |-> <<"m", "n">>])
    /\ prefix_call.result = Raises([id |-> 1, type |-> "ValueError", args |-> <<"p:\nm", "n">>])

\* C18: try_with_context / try_with_lazy_context raise the exception that f
\* raised, whatever its args, empty args included: never another exception in
\* its place; the first argument, when there is one, has the context and
\* ":\n" prepended.
C18_ContextSameException ==
    (prefix_call.via \in {"try_with_context", "try_with_lazy_context"} /\ BodyFailed) =>
        /\ SameException
        /\ LET old == prefix_call.body.exception.args
               new == prefix_call.result.exception.args
           IN  Len(old) > 0 => new = <<prefix_call.msg_prefix \o ":\n" \o old[1]>> \o Tail(old)

---------------------------------------------------------------------------
(* src/tdx/decorators.py: error_prefix_from_args.  One call of a decorated
   function g; f_argspec is the argspec of g and call_args, call_kwargs are
   the arguments of the call. *)

\* One call of def g(x, y="2"), def g(x, **fkwargs) or def g(*fargs, **fkwargs)
\* decorated with error_prefix_from_args(context_message), or one block
\*     with lazy_error_prefix(lambda: context_message): return g(...)
InitContext ==
    /\ IdleExcept({"resolver", "prefix"})
    /\ f_argspec \in
           {[args |-> <<"x", "y">>, varargs |-> None, keywords |-> None, defaults |-> <<"2">>],
            [args |-> <<"x">>, varargs |-> None, keywords |-> "fkwargs", defaults |-> <<>>],
            [args |-> <<>>, varargs |-> "fargs", keywords |-> "fkwargs", defaults |-> <<>>]}
    /\ call_args \in {<<>>, <<"1">>, <<"1", "2", "3">>}
    /\ call_kwargs \in
           {<<>>, [k \in {"y"} |-> "3"], [k \in {"f"} |-> "3"], [k \in {"f_argspec"} |-> "3"]}
    /\ pc = "idle"
    /\ outcome = NotCalled
    /\ first = NoFirst
    /\ \E via \in {"error_prefix_from_args", "lazy_error_prefix"},
          fields \in {<<>>, <<"x">>, <<"x", "q">>} :
          prefix_call = [pc |-> "body", via |-> via,
                         msg_prefix |-> context_message(fields),
                         fields |-> fields, body |-> NotRun, result |-> NotRun,
                         calls |-> <<>>]

SpecContext == InitContext /\ [][BodyReturns \/ BodyRaises]_vars

\* C17: whenever the decorated function raises E the decorated call raises
\* that same E, for every call; its first argument has a prefix and ":\n"
\* prepended (the prefix alone is the argument when E had none), and when the
\* message cannot be built or formatted from the arguments of the call the
\* prefix is the raw context message followed by the FAILED TO FORMAT marker.
C17_SameExceptionForEveryCall ==
    (prefix_call.via = "error_prefix_from_args" /\ BodyFailed) =>
        /\ SameException
        /\ LET old == prefix_call.body.exception.args
               new == prefix_call.result.exception.args
               arguments == get_callargs(f_argspec, call_args, call_kwargs)
               raw == prefix_call.msg_prefix \o "\n...FAILED TO FORMAT args="
                          \o ReprTuple(call_args) \o " kwargs=" \o ReprDict(call_kwargs)
               prefix == IF arguments.kind = "returned"
                            /\ \A i \in 1..Len(prefix_call.fields) :
                                   prefix_call.fields[i] \in DOMAIN arguments.arguments
                         THEN "ctx" \o Filled(prefix_call.fields, arguments.arguments)
                         ELSE raw
           IN  new = IF Len(old) = 0 THEN <<prefix>>
                     ELSE <<prefix \o ":\n" \o old[1]>> \o Tail(old)

\* the positions of the calls of callee during the block
CallsOf(callee) == {i \in 1..Len(prefix_call.calls) : prefix_call.calls[i] = callee}

\* C30: msg_prefix_f is called once when the body raised an Exception, after
\* the body, and not at all when the body completed; the resolver behind
\* error_prefix_from_args runs only in calls whose decorated function raised,
\* once and after it.
C30_PrefixIsLazy ==
    prefix_call.pc = "done" =>
        LET callee == Invocation(prefix_call.via)[1]
        IN  /\ prefix_call.body.kind = "returned" =>
                   /\ CallsOf(callee) = {}
                   /\ CallsOf("get_callargs") = {}
            /\ BodyFailed =>
                   /\ Cardinality(CallsOf(callee)) = 1
                   /\ \A i \in CallsOf(callee) : \E b \in CallsOf("body") : b < i
            /\ CallsOf("get_callargs") # {} =>
                   /\ prefix_call.via = "error_prefix_from_args"
                   /\ prefix_call.body.kind = "raised"
                   /\ Cardinality(CallsOf("get_callargs")) = 1
                   /\ \A i \in CallsOf("get_callargs") : \E b \in CallsOf("body") : b < i

C30_Witness ==
    /\ prefix_call.pc = "done"
    /\ prefix_call.via = "error_prefix_from_args"
    /\ prefix_call.body = Raises([id |-> 1, type |-> "ValueError", args |-> <<"m">>])
    /\ prefix_call.calls = <<"body", "format_context_message", "get_callargs">>
    /\ prefix_call.result.kind = "raised"

---------------------------------------------------------------------------
(* src/tdx/decorators.py: debug.  One call of a wrapped function; the sleep
   before the debugger is a step of its own, because a keyboard interrupt may
   end it. *)

\* a variant with except Exception
DebugCaught_exceptions_only(type) == IsException(type)

\* except: (every exception, KeyboardInterrupt included)
DebugCaught(type) == TRUE

\* _get_debugger(): pudb when it can be imported, pdb otherwise
_get_debugger == {"pudb", "pdb"}

\* debugger = _get_debugger() if use_debugger is None else use_debugger
Debuggers(use_debugger) == IF use_debugger = None THEN _get_debugger ELSE {use_debugger}

KeyboardInterrupt == [id |-> 2, type |-> "KeyboardInterrupt", args |-> <<>>]

InitDebug ==
    /\ IdleExcept({"debug"})
    /\ \E debug \in BOOLEAN, delay \in 0..MaxDelay, use_debugger \in {None, "d"} :
          debug_call = [pc |-> "call", debug |-> debug, delay |-> delay,
                        use_debugger |-> use_debugger, body |-> NotRun,
                        result |-> NotRun, printed |-> FALSE, post_mortem |-> <<>>]

\* return wrapped(*args, **kwargs)
WrappedReturns ==
    /\ debug_call.pc = "call"
    /\ \E v \in ReturnValues :
          debug_call' = [debug_call EXCEPT !.pc = "done", !.body = Returns(v),
                                           !.result = Returns(v)]
    /\ UNCHANGED <<f_argspec, call_args, call_kwargs, pc, outcome, first, retry_call,
                   prefix_call, keys_call, dicts_call, files_call, wrap_call,
                   lookup_call>>

\* wrapped raises: if not debug: raise; else the traceback and the notice are
\* printed and the sleep begins
WrappedRaises ==
    /\ debug_call.pc = "call"
    /\ \E e \in BodyExceptions :
          debug_call' =
              IF ~DebugCaught(e.type) \/ ~debug_call.debug
              THEN [debug_call EXCEPT !.pc = "done", !.body = Raises(e),
                                      !.result = Raises(e)]
              ELSE [debug_call EXCEPT !.pc = "sleep", !.body = Raises(e),
                                      !.printed = TRUE]
    /\ UNCHANGED <<f_argspec, call_args, call_kwargs, pc, outcome, first, retry_call,
                   prefix_call, keys_call, dicts_call, files_call, wrap_call,
                   lookup_call>>

\* time.sleep(delay) returns; debugger.post_mortem(tb); the wrapper returns None
PostMortem ==
    /\ debug_call.pc = "sleep"
    /\ \E debugger \in Debuggers(debug_call.use_debugger) :
          debug_call' = [debug_call EXCEPT !.pc = "done",
                                           !.post_mortem = Append(@, debugger),
                                           !.result = Returns(None)]
    /\ UNCHANGED <<f_argspec, call_args, call_kwargs, pc, outcome, first, retry_call,
                   prefix_call, keys_call, dicts_call, files_call, wrap_call,
                   lookup_call>>

\* C-c during time.sleep(delay)
SleepInterrupted ==
    /\ debug_call.pc = "sleep"
    /\ debug_call.delay > 0
    /\ debug_call' = [debug_call EXCEPT !.pc = "done", !.result = Raises(KeyboardInterrupt)]
    /\ UNCHANGED <<f_argspec, call_args, call_kwargs, pc, outcome, first, retry_call,
                   prefix_call, keys_call, dicts_call, files_call, wrap_call,
                   lookup_call>>

SpecDebug == InitDebug /\ [][WrappedReturns \/ WrappedRaises \/ PostMortem \/ SleepInterrupted]_vars

\* C19: for debug(debug, use_debugger=d), once the call has ended:
\* d.post_mortem has been called if and only if the function raised and debug
\* is true, and then once, on d, and the call has returned (None); with debug
\* false the exception of the function leaves unchanged; when the function
\* returns, its value is returned; in both cases no debugger is called.
C19_DebuggerIffRaisesAndDebug ==
    (debug_call.pc = "done" /\ debug_call.use_debugger = "d" /\ debug_call.delay = 0) =>
        /\ Len(debug_call.post_mortem) > 0 <=>
               (debug_call.body.kind = "raised" /\ debug_call.debug)
        /\ Len(debug_call.post_mortem) > 0 =>
               /\ debug_call.post_mortem = <<"d">>
               /\ debug_call.result = Returns(None)
        /\ (debug_call.body.kind = "raised" /\ ~debug_call.debug) =>
               debug_call.result = debug_call.body
        /\ debug_call.body.kind = "returned" => debug_call.result = debug_call.body

C19_Witness ==
    /\ debug_call.pc = "done"
    /\ debug_call.use_debugger = "d"
    /\ debug_call.delay = 0
    /\ debug_call.debug
    /\ debug_call.body = Raises([id |-> 1, type |-> "ValueError", args |-> <<"m">>])
    /\ debug_call.post_mortem = <<"d">>
    /\ debug_call.result = Returns(None)

---------------------------------------------------------------------------
(* src/tdx/validation.py (and its copy src/tdxutil/validation.py): check_keys.
   A dict is its set of keys.  An iterable is the set of the keys it yields
   and whether it can be iterated only once (an iterator, a generator) or
   again and again (a list, a tuple, a set, a dict). *)

NoneGiven == [tag |-> "None", keys |-> {}, one_shot |-> FALSE]

\* ANY = True
ANY == [tag |-> "ANY", keys |-> {}, one_shot |-> FALSE]

Iterable(keys, one_shot) == [tag |-> "iterable", keys |-> keys, one_shot |-> one_shot]

\* what one pass over an iterable yields, and the iterable after the pass
Yields(it) == it.keys

Spent(it) == IF it.one_shot THEN [it EXCEPT !.keys = {}] ELSE it

ValueError(msg) == Raises([id |-> 1, type |-> "ValueError", args |-> msg])

\* lines 48-57: the missing and the unexpected keys; permitted is the set of
\* allowed keys, or ANY
CheckMismatch(keyset, required, permitted) ==
    LET missing == {k \in Yields(required) : k \notin keyset}
        unexpected == IF permitted # ANY THEN {k \in keyset : k \notin permitted.keys} ELSE {}
    IN  IF missing # {} \/ unexpected # {}
        THEN ValueError(<<"Key mismatch">>)
        ELSE Returns(None)

check_keys(keyset, required, allowed, optional) ==
    IF optional # NoneGiven /\ allowed # NoneGiven
    THEN ValueError(<<"You may specify at most one of allowed and optional">>)
    ELSE IF allowed = ANY
    THEN CheckMismatch(keyset, required, ANY)
    ELSE IF allowed # NoneGiven
    THEN LET required_but_not_allowed == {r \in Yields(required) : r \notin Yields(allowed)}
         IN  IF required_but_not_allowed # {}
             THEN ValueError(<<>>)
             ELSE CheckMismatch(keyset, Spent(required), Iterable(Yields(allowed), FALSE))
    ELSE IF optional # NoneGiven
    THEN CheckMismatch(keyset, Spent(required),
                       Iterable(Yields(optional) \cup Yields(required), FALSE))
    ELSE CheckMismatch(keyset, Spent(required), Iterable(Yields(required), FALSE))

Iterables == {Iterable(keys, one_shot) : keys \in SUBSET {"a", "b", "c"}, one_shot \in BOOLEAN}

InitKeys ==
    /\ IdleExcept({"keys"})
    /\ \E d \in SUBSET {"a", "b", "c"}, required \in Iterables,
          allowed \in Iterables \cup {ANY, NoneGiven},
          optional \in Iterables \cup {NoneGiven} :
          keys_call = [pc |-> "call", d |-> d, required |-> required,
                       allowed |-> allowed, optional |-> optional, result |-> NotRun]

CheckKeys ==
    /\ keys_call.pc = "call"
    /\ keys_call' =
           [keys_call EXCEPT
               !.pc = "done",
               !.result = check_keys(keys_call.d, keys_call.required,
                                     keys_call.allowed, keys_call.optional)]
    /\ UNCHANGED <<f_argspec, call_args, call_kwargs, pc, outcome, first, retry_call,
                   prefix_call, debug_call, dicts_call, files_call, wrap_call,
                   lookup_call>>

SpecKeys == InitKeys /\ [][CheckKeys]_vars

\* C20: check_keys returns without raising if and only if every required key
\* is a key of d and every key of d is permitted (every key for ANY, allowed
\* when given, required and optional when optional is given, required when
\* neither is given), unless both allowed and optional are given or a required
\* key is not allowed; in every other case it raises ValueError.
C20_ReturnsIffKeysFit ==
    LET \* the set of permitted keys of the call, when allowed is not ANY
        Permitted ==
            IF keys_call.allowed.tag = "iterable" THEN keys_call.allowed.keys
            ELSE IF keys_call.optional.tag = "iterable"
                 THEN keys_call.required.keys \cup keys_call.optional.keys
                 ELSE keys_call.required.keys
        KeysFit ==
            /\ keys_call.required.keys \subseteq keys_call.d
            /\ (keys_call.allowed = ANY \/ keys_call.d \subseteq Permitted)
        BadArguments ==
            \/ (keys_call.allowed # NoneGiven /\ keys_call.optional # NoneGiven)
            \/ /\ keys_call.allowed.tag = "iterable"
               /\ ~(keys_call.required.keys \subseteq keys_call.allowed.keys)
    IN
    keys_call.pc = "done" =>
        IF KeysFit /\ ~BadArguments
        THEN keys_call.result = Returns(None)
        ELSE /\ keys_call.result.kind = "raised"
             /\ keys_call.result.exception.type = "ValueError"

---------------------------------------------------------------------------
(* src/tdx/collections.py: add_dicts.  The order in which a dict lists its
   keys is not fixed, so the key named by the error is any of the keys of the
   first argument that repeats an earlier one. *)

\* new[key] = arg[key] for every key of arg
Updated(new, arg) ==
    [k \in DOMAIN new \cup DOMAIN arg |-> IF k \in DOMAIN arg THEN arg[k] ELSE new[k]]

\* a variant without the test for duplicates
RECURSIVE add_dicts_last_wins(_, _)
add_dicts_last_wins(new, args) ==
    IF args = <<>>
    THEN {Returns(new)}
    ELSE add_dicts_last_wins(Updated(new, Head(args)), Tail(args))

\* the outcomes of the loop of add_dicts from the dict new on, for the
\* arguments still to come
RECURSIVE add_dicts(_, _)
add_dicts(new, args) ==
    IF args = <<>>
    THEN {Returns(new)}
    ELSE LET seen == DOMAIN Head(args) \cap DOMAIN new
         IN  IF seen # {}
             THEN {ValueError(<<"Duplicate key: '" \o key \o "'">>) : key \in seen}
             ELSE add_dicts(Updated(new, Head(args)), Tail(args))

InitDicts ==
    /\ IdleExcept({"dicts"})
    /\ \E args \in SeqsUpTo((UNION {[keys -> {"1", "2"}] : keys \in SUBSET {"a", "b"}}), MaxDicts) :
          dicts_call = [pc |-> "call", given |-> args, args |-> args, result |-> NotRun]

\* add_dicts(*args) runs; it assigns to none of its arguments
AddDicts ==
    /\ dicts_call.pc = "call"
    /\ \E result \in add_dicts(<<>>, dicts_call.args) :
          dicts_call' = [dicts_call EXCEPT !.pc = "done", !.result = result]
    /\ UNCHANGED <<f_argspec, call_args, call_kwargs, pc, outcome, first, retry_call,
                   prefix_call, debug_call, keys_call, files_call, wrap_call,
                   lookup_call>>

SpecDicts == InitDicts /\ [][AddDicts]_vars

\* C21: add_dicts raises ValueError if and only if some key occurs in more
\* than one argument, whatever the values; otherwise it returns a dict whose
\* keys are the union of the arguments' keys, each with its value in the
\* argument that has it; the arguments are as they were given.
C21_RaisesIffDuplicate ==
    dicts_call.pc = "done" =>
        /\ dicts_call.args = dicts_call.given
        /\ IF (\E i, j \in 1..Len(dicts_call.given) : i # j /\ DOMAIN dicts_call.given[i] \cap DOMAIN dicts_call.given[j] # {})
           THEN /\ dicts_call.result.kind = "raised"
                /\ dicts_call.result.exception.type = "ValueError"
           ELSE /\ dicts_call.result.kind = "returned"
                /\ DOMAIN dicts_call.result.value =
                       UNION {DOMAIN dicts_call.given[i] : i \in 1..Len(dicts_call.given)}
                /\ \A i \in 1..Len(dicts_call.given) : \A k \in DOMAIN dicts_call.given[i] :
                       dicts_call.result.value[k] = dicts_call.given[i][k]

C21_Witness ==
    /\ dicts_call.pc = "done"
    /\ Len(dicts_call.given) = 3
    /\ dicts_call.given[1] = [k \in {"a"} |-> "1"]
    /\ dicts_call.given[3] = [k \in {"a"} |-> "1"]
    /\ dicts_call.given[2] = [k \in {"b"} |-> "2"]
    /\ dicts_call.result.kind = "raised"

---------------------------------------------------------------------------
(* src/tdx/data.py: write_json, write_yaml, write_content and the matching
   reads.  A Python value is a record of its type and its text; the data of a
   file is a record of its format, of the kind of node it holds and of the
   text.  Dumping and loading are modelled by what they do to these. *)

Paths == {"p", "q"}

Kinds == {"json", "yaml", "content"}

\* two strings, a datetime.date and a set
Contents ==
    {[type |-> "str", v |-> "a"], [type |-> "str", v |-> "1999-01-01"],
     [type |-> "date", v |-> "1999-01-01"], [type |-> "set", v |-> "a"]}

Absent == [format |-> "none", node |-> "absent", v |-> ""]

\* a file that open(path, 'w') has created or truncated
Empty == [format |-> "none", node |-> "empty", v |-> ""]

Dumped(data) == [ok |-> TRUE, data |-> data]

\* json.dump(content, f, cls=DateTimeEncoder): a date is written as the
\* string of its isoformat(); a set is not serializable (TypeError)
json_dump(content) ==
    CASE content.type = "str" -> Dumped([format |-> "json", node |-> "string", v |-> content.v])
      [] content.type = "date" -> Dumped([format |-> "json", node |-> "string", v |-> content.v])
      [] content.type = "set" -> ([ok |-> FALSE, data |-> Empty])

\* yaml.safe_dump(content, stream=f): strings, timestamps and sets have nodes
\* of their own
yaml_string(content) ==
    CASE content.type = "str" -> Dumped([format |-> "yaml", node |-> "str", v |-> content.v])
      [] content.type = "date" -> Dumped([format |-> "yaml", node |-> "timestamp", v |-> content.v])
      [] content.type = "set" -> Dumped([format |-> "yaml", node |-> "set", v |-> content.v])

\* f.write(content): only a string can be written (TypeError otherwise)
f_write(content) ==
    IF content.type = "str"
    THEN Dumped([format |-> "content", node |-> "text", v |-> content.v])
    ELSE ([ok |-> FALSE, data |-> Empty])

Dump(kind, content) ==
    CASE kind = "json" -> json_dump(content)
      [] kind = "yaml" -> yaml_string(content)
      [] kind = "content" -> f_write(content)

\* read_json, read_yaml, read_content on a file of the same format or on an
\* empty file
Load(kind, data) ==
    CASE data = Absent -> Raises([id |-> 1, type |-> "IOError", args |-> <<"No such file or directory">>])
      [] data = Empty /\ kind = "json" -> ValueError(<<"No JSON object could be decoded">>)
      [] data = Empty /\ kind = "yaml" -> Returns([type |-> "NoneType", v |-> ""])
      [] data = Empty /\ kind = "content" -> Returns([type |-> "str", v |-> ""])
      [] data.node = "string" -> Returns([type |-> "str", v |-> data.v])
      [] data.node = "str" -> Returns([type |-> "str", v |-> data.v])
      [] data.node = "timestamp" -> Returns([type |-> "date", v |-> data.v])
      [] data.node = "set" -> Returns([type |-> "set", v |-> data.v])
      [] data.node = "text" -> Returns([type |-> "str", v |-> data.v])

\* a variant that never refuses
_raise_if_exists_never(disk, path) == FALSE

\* _raise_if_exists(path): os.path.exists(path)
_raise_if_exists(disk, path) == disk[path] # Absent

InitFiles ==
    /\ IdleExcept({"files"})
    /\ files_call = [pc |-> "files", ops |-> 0,
                     disk |-> [path \in Paths |-> Absent],
                     first |-> [path \in Paths |->
                                   [set |-> FALSE, kind |-> "content",
                                    content |-> [type |-> "str", v |-> ""]]],
                     last |-> [op |-> "none", kind |-> "content", path |-> "p",
                               content |-> [type |-> "str", v |-> ""],
                               before |-> Absent, result |-> NotRun]]

\* write_json / write_yaml / write_content (content, path): the existence
\* check, then open(path, 'w') and the dump; a dump that fails leaves the file
\* that open created
WriteFile ==
    /\ files_call.pc = "files"
    /\ files_call.ops < MaxOps
    /\ \E kind \in Kinds, content \in Contents, path \in Paths :
          LET disk == files_call.disk
              dump == Dump(kind, content)
              op == [op |-> "write", kind |-> kind, path |-> path,
                     content |-> content, before |-> disk[path], result |-> NotRun]
          IN  IF _raise_if_exists(disk, path)
              THEN files_call' =
                       [files_call EXCEPT
                           !.ops = @ + 1,
                           !.last = [op EXCEPT !.result =
                                        ValueError(<<"may only be used for new files">>)]]
              ELSE files_call' =
                       [files_call EXCEPT
                           !.ops = @ + 1,
                           !.disk[path] = dump.data,
                           !.first[path] =
                               IF dump.ok /\ ~files_call.first[path].set
                               THEN [set |-> TRUE, kind |-> kind, content |-> content]
                               ELSE @,
                           !.last = [op EXCEPT !.result =
                                        IF dump.ok THEN Returns(None)
                                        ELSE Raises([id |-> 1, type |-> "TypeError",
                                                     args |-> <<"not serializable">>])]]
    /\ UNCHANGED <<f_argspec, call_args, call_kwargs, pc, outcome, first, retry_call,
                   prefix_call, debug_call, keys_call, dicts_call, wrap_call,
                   lookup_call>>

\* read_json / read_yaml / read_content (path), the read that matches the
\* format of the file
ReadFile ==
    /\ files_call.pc = "files"
    /\ files_call.ops < MaxOps
    /\ \E kind \in Kinds, path \in Paths :
          /\ files_call.disk[path].format \in {"none", kind}
          /\ files_call' =
                 [files_call EXCEPT
                     !.ops = @ + 1,
                     !.last = [op |-> "read", kind |-> kind, path |-> path,
                               content |-> [type |-> "str", v |-> ""],
                               before |-> files_call.disk[path],
                               result |-> Load(kind, files_call.disk[path])]]
    /\ UNCHANGED <<f_argspec, call_args, call_kwargs, pc, outcome, first, retry_call,
                   prefix_call, debug_call, keys_call, dicts_call, wrap_call,
                   lookup_call>>

SpecFiles == InitFiles /\ [][WriteFile \/ ReadFile]_vars

\* a write to a path that exists is refused and leaves the file as it was
RefusedIfExists ==
    (files_call.last.op = "write" /\ files_call.last.before # Absent) =>
        /\ files_call.last.result.kind = "raised"
        /\ files_call.last.result.exception.type = "ValueError"
        /\ files_call.disk[files_call.last.path] = files_call.last.before

AsRead(kind, content) ==
    IF kind = "json" /\ content.type = "date"
    THEN [type |-> "str", v |-> content.v]
    ELSE content

---------------------------------------------------------------------------
(* src/tdx/data.py: two callers write to the same path "p", which does not
   exist, at the same time.  The steps of a write are the existence check,
   open(path, 'w'), which creates or truncates the file, and the dump with the
   close that ends the with block. *)

Callers == {1, 2}

InitRace ==
    /\ IdleExcept({"files"})
    /\ \E kinds \in [Callers -> Kinds], contents \in [Callers -> Contents] :
          files_call = [pc |-> "race",
                        disk |-> [path \in Paths |-> Absent],
                        callers |-> [c \in Callers |->
                                        [pc |-> "check", kind |-> kinds[c],
                                         content |-> contents[c], result |-> NotRun]]]

\* _raise_if_exists(path)
RaceCheck(c) ==
    /\ files_call.pc = "race"
    /\ files_call.callers[c].pc = "check"
    /\ files_call' =
           IF _raise_if_exists(files_call.disk, "p")
           THEN [files_call EXCEPT
                    !.callers[c].pc = "done",
                    !.callers[c].result = ValueError(<<"may only be used for new files">>)]
           ELSE [files_call EXCEPT !.callers[c].pc = "open"]
    /\ UNCHANGED <<f_argspec, call_args, call_kwargs, pc, outcome, first, retry_call,
                   prefix_call, debug_call, keys_call, dicts_call, wrap_call,
                   lookup_call>>

\* with open(path, 'w') as f
RaceOpen(c) ==
    /\ files_call.pc = "race"
    /\ files_call.callers[c].pc = "open"
    /\ files_call' = [files_call EXCEPT !.callers[c].pc = "write", !.disk["p"] = Empty]
    /\ UNCHANGED <<f_argspec, call_args, call_kwargs, pc, outcome, first, retry_call,
                   prefix_call, debug_call, keys_call, dicts_call, wrap_call,
                   lookup_call>>

\* the dump and the end of the with block; the file holds what this caller
\* wrote from the start of the file
RaceWrite(c) ==
    /\ files_call.pc = "race"
    /\ files_call.callers[c].pc = "write"
    /\ LET dump == Dump(files_call.callers[c].kind, files_call.callers[c].content)
       IN  files_call' =
               [files_call EXCEPT
                   !.callers[c].pc = "done",
                   !.callers[c].result =
                       IF dump.ok THEN Returns(None)
                       ELSE Raises([id |-> 1, type |-> "TypeError",
                                    args |-> <<"not serializable">>]),
                   !.disk["p"] = IF dump.ok THEN dump.data ELSE @]
    /\ UNCHANGED <<f_argspec, call_args, call_kwargs, pc, outcome, first, retry_call,
                   prefix_call, debug_call, keys_call, dicts_call, wrap_call,
                   lookup_call>>

SpecRace == InitRace /\ [][(\E c \in Callers : RaceCheck(c) \/ RaceOpen(c) \/ RaceWrite(c))]_vars

\* C28: of two concurrent writes to the same new path at most one succeeds,
\* and from then on the file holds what the successful one wrote: the other
\* neither truncates nor replaces it.
C28_AtMostOneWriter ==
    LET Succeeded(c) ==
            /\ files_call.callers[c].pc = "done"
            /\ files_call.callers[c].result.kind = "returned"
    IN
    files_call.pc = "race" =>
        /\ ~(Succeeded(1) /\ Succeeded(2))
        /\ \A c \in Callers :
               Succeeded(c) =>
                   files_call.disk["p"] =
                       Dump(files_call.callers[c].kind, files_call.callers[c].content).data

---------------------------------------------------------------------------
(* src/tdxutil/wrapping.py: update_wrapper, wraps, get_argspec.  A function
   object is the argspec that inspect.getargspec finds for it and its
   __dict__ of attributes. *)

\* def wrapper(*args, **kwargs), not yet updated
NewWrapper ==
    [inspected |-> [args |-> <<>>, varargs |-> "args", keywords |-> "kwargs", defaults |-> <<>>],
     dict |-> <<>>]

\* a variant that always inspects
get_argspec_inspect_only(f) == f.inspected

get_argspec(f) ==
    IF "__argspec__" \in DOMAIN f.dict THEN f.dict["__argspec__"] ELSE f.inspected

\* functools.update_wrapper: the assigned attributes (name, module, doc) are
\* not part of a function object here; wrapper.__dict__.update(wrapped.__dict__)
functools_update_wrapper(wrapper, wrapped) ==
    [wrapper EXCEPT !.dict = wrapped.dict @@ wrapper.dict]

update_wrapper(wrapper, wrapped) ==
    LET updated == functools_update_wrapper(wrapper, wrapped)
    IN  [updated EXCEPT !.dict = DictSet(@, "__argspec__", get_argspec(wrapped))]

\* @wraps(wrapped) applied to a new wrapper
wraps(wrapped) == update_wrapper(NewWrapper, wrapped)

InitWrap ==
    /\ IdleExcept({"wrap"})
    /\ \E argspec \in ExampleSignatures :
          wrap_call = [pc |-> "wrap", original |-> argspec,
                       \* def f(...) with the argspec argspec
                       outermost |-> [inspected |-> argspec, dict |-> <<>>],
                       layers |-> <<>>]

\* a decorator built with tdxutil.wrapping.wraps is applied
WrapLayer ==
    /\ wrap_call.pc = "wrap"
    /\ Len(wrap_call.layers) < MaxLayers
    /\ wrap_call' = [wrap_call EXCEPT !.outermost = wraps(@),
                                      !.layers = Append(@, "wraps")]
    /\ UNCHANGED <<f_argspec, call_args, call_kwargs, pc, outcome, first, retry_call,
                   prefix_call, debug_call, keys_call, dicts_call, files_call,
                   lookup_call>>

\* a decorator built with functools.wraps is applied
FunctoolsLayer ==
    /\ wrap_call.pc = "wrap"
    /\ Len(wrap_call.layers) < MaxLayers
    /\ wrap_call' = [wrap_call EXCEPT !.outermost = functools_update_wrapper(NewWrapper, @),
                                      !.layers = Append(@, "functools")]
    /\ UNCHANGED <<f_argspec, call_args, call_kwargs, pc, outcome, first, retry_call,
                   prefix_call, debug_call, keys_call, dicts_call, files_call,
                   lookup_call>>

SpecWrap == InitWrap /\ [][WrapLayer \/ FunctoolsLayer]_vars

\* C23: under one or more layers that are all built with tdxutil.wrapping.wraps
\* get_argspec of the outermost wrapper is the argspec of the original function.
C23_ArgspecKept ==
    (wrap_call.pc = "wrap" /\ Len(wrap_call.layers) >= 1
        /\ \A i \in 1..Len(wrap_call.layers) : wrap_call.layers[i] = "wraps") =>
        get_argspec(wrap_call.outermost) = wrap_call.original

C23_Witness ==
    /\ wrap_call.pc = "wrap"
    /\ wrap_call.layers = <<"wraps", "wraps", "wraps">>
    /\ wrap_call.original.args = <<"x", "y", "z">>
    /\ wrap_call.outermost.inspected.args = <<>>
    /\ wrap_call.outermost.dict["__argspec__"] = wrap_call.original

---------------------------------------------------------------------------
(* src/tdx/collections.py: get_by_specifier, _specifier_to_keys.  A specifier
   is the sequence of its characters.  A key is a name or an index.  An item
   of a collection is a dict (its keys in keys, their values in items), a list
   (items), a string (its characters in text), an int or None. *)

\* \w
WordChars == {"a", "b", "c", "_", "0", "1", "2", "3", "4", "5", "6", "7", "8", "9"}

\* \d, each digit at the position of its value plus one
DigitChars == <<"0", "1", "2", "3", "4", "5", "6", "7", "8", "9">>

\* the end of \w+ or \d+ from position i: the first position from i on whose
\* character is not in chars
RECURSIVE RunEnd(_, _, _)
RunEnd(specifier, i, chars) ==
    IF i <= Len(specifier) /\ specifier[i] \in chars
    THEN RunEnd(specifier, i + 1, chars)
    ELSE i

\* the characters i .. j - 1 as one string
RECURSIVE Text(_, _, _)
Text(specifier, i, j) ==
    IF i >= j THEN "" ELSE specifier[i] \o Text(specifier, i + 1, j)

\* int(num_match) of the characters i .. j - 1
RECURSIVE ToInt(_, _, _)
ToInt(specifier, i, j) ==
    IF i >= j THEN 0
    ELSE 10 * ToInt(specifier, i, j - 1)
           + (CHOOSE d \in 0..9 : DigitChars[d + 1] = specifier[j - 1])

\* (?:\[\d+\]|\.\w+)*$ from position i
RECURSIVE LegalTail(_, _)
LegalTail(specifier, i) ==
    IF i > Len(specifier) THEN TRUE
    ELSE IF specifier[i] = "["
    THEN LET j == RunEnd(specifier, i + 1, Range(DigitChars))
         IN  j > i + 1 /\ j <= Len(specifier) /\ specifier[j] = "]"
               /\ LegalTail(specifier, j + 1)
    ELSE IF specifier[i] = "."
    THEN LET j == RunEnd(specifier, i + 1, WordChars)
         IN  j > i + 1 /\ LegalTail(specifier, j)
    ELSE FALSE

\* legal_specifier_rx.match(specifier): (?:\w+|\[\d\]) at the start, then the
\* tail
legal_specifier(specifier) ==
    \/ Len(specifier) >= 1 /\ specifier[1] \in WordChars
         /\ LegalTail(specifier, RunEnd(specifier, 1, WordChars))
    \/ Len(specifier) >= 3 /\ specifier[1] = "[" /\ specifier[2] \in Range(DigitChars)
         /\ specifier[3] = "]" /\ LegalTail(specifier, 4)

\* re.findall(key_match_rx, specifier) from position i, a number match
\* converted by int
RECURSIVE FindKeys(_, _)
FindKeys(specifier, i) ==
    IF i > Len(specifier) THEN <<>>
    ELSE LET d == RunEnd(specifier, i + 1, Range(DigitChars))
             w == RunEnd(specifier, i, WordChars)
         IN  IF specifier[i] = "[" /\ d > i + 1 /\ d <= Len(specifier) /\ specifier[d] = "]"
             THEN <<[kind |-> "index", name |-> "", index |-> ToInt(specifier, i + 1, d)]>>
                      \o FindKeys(specifier, d + 1)
             ELSE IF w > i
             THEN <<[kind |-> "name", name |-> Text(specifier, i, w), index |-> 0]>>
                      \o FindKeys(specifier, w)
             ELSE FindKeys(specifier, i + 1)

\* %r of a key
ReprKey(k) ==
    IF k.kind = "name" THEN "'" \o k.name \o "'"
    ELSE IF k.index < 10 THEN DigitChars[k.index + 1]
    ELSE DigitChars[(k.index \div 10) + 1] \o DigitChars[(k.index % 10) + 1]

_specifier_to_keys(specifier) ==
    IF ~legal_specifier(specifier)
    THEN ValueError(<<"'" \o Text(specifier, 1, Len(specifier) + 1)
                        \o "' is not a legal specifier">>)
    ELSE Returns(FindKeys(specifier, 1))

\* a dict, a list, a str, an int or None of a json blob; a str holds its
\* characters and an int its digits in text
Item(type, keys, items, text) ==
    [type |-> type, keys |-> keys, items |-> items, text |-> text]

\* item[k]
GetItem(item, k) ==
    LET Error(type) == Raises([id |-> 1, type |-> type, args |-> <<ReprKey(k)>>])
    IN  CASE item.type = "dict" ->
                IF k.kind = "name" /\ \E i \in 1..Len(item.keys) : item.keys[i] = k.name
                THEN Returns(item.items[CHOOSE i \in 1..Len(item.keys) : item.keys[i] = k.name])
                ELSE Error("KeyError")
          [] item.type = "list" ->
                IF k.kind = "name" THEN Error("TypeError")
                ELSE IF k.index < Len(item.items) THEN Returns(item.items[k.index + 1])
                ELSE Error("IndexError")
          [] item.type = "str" ->
                IF k.kind = "name" THEN Error("TypeError")
                ELSE IF k.index < Len(item.text)
                THEN Returns(Item("str", <<>>, <<>>, <<item.text[k.index + 1]>>))
                ELSE Error("IndexError")
          [] OTHER -> Error("TypeError")

RaiseIfSpecifierNotFound == Item("RaiseIfSpecifierNotFound", <<>>, <<>>, <<>>)

\* for k in keys: item = item[k], from the i-th key on: the item reached, or
\* the exception of the first key that does not apply
RECURSIVE LookupLoop(_, _, _)
LookupLoop(keys, i, item) ==
    IF i > Len(keys) THEN Returns(item)
    ELSE LET next == GetItem(item, keys[i])
         IN  IF next.kind = "returned" THEN LookupLoop(keys, i + 1, next.value) ELSE next

get_by_specifier(specifier, collection, default) ==
    LET keys == _specifier_to_keys(specifier)
        found == LookupLoop(keys.value, 1, collection)
    IN  IF keys.kind = "raised" THEN keys
        ELSE IF found.kind = "raised" /\ found.exception.type \in {"IndexError", "KeyError"}
        THEN (IF default = RaiseIfSpecifierNotFound
              THEN ValueError(<<"Failed to find key " \o found.exception.args[1]
                                  \o " in specifier '"
                                  \o Text(specifier, 1, Len(specifier) + 1) \o "'">>)
              ELSE Returns(default))
        ELSE found

InitLookup ==
    /\ IdleExcept({"lookup"})
    /\ \E specifier \in
              { <<"a">>, <<"a", ".", "b">>, <<"a", ".", "b", "[", "1", "]">>,
                <<"a", ".", "b", "[", "2", "]">>, <<"a", ".", "b", "[", "1", "0", "]">>,
                <<"a", "[", "0", "]", ".", "b">>, <<"a", "[", "1", "]">>,
                <<"[", "0", "]", ".", "a">>, <<"[", "1", "]", "[", "0", "]">>,
                <<"[", "0", "]">>, <<"c", "[", "0", "]">>, <<"c", "[", "5", "]">>,
                <<"b", "[", "0", "]">>, <<"a", ".", "c">>, <<"c", ".", "a">>,
                <<"b", "_", "1">>, <<"a", ".", ".", "b">>, <<"[", "1", "2", "]">>,
                <<"a", "[", "]">>, <<>> },
          collection \in
              { Item("dict", <<"a", "c">>,
                     << Item("dict", <<"b">>,
                             << Item("list", <<>>, << Item("int", <<>>, <<>>, <<"10">>),
                                                      Item("int", <<>>, <<>>, <<"20">>) >>,
                                     <<>>) >>, <<>>),
                        Item("str", <<>>, <<>>, <<"h", "i">>) >>, <<>>),
                Item("dict", <<"a", "b">>,
                     << Item("list", <<>>,
                             << Item("dict", <<"b">>, << Item("int", <<>>, <<>>, <<"1">>) >>,
                                     <<>>) >>, <<>>),
                        Item("int", <<>>, <<>>, <<"5">>) >>, <<>>),
                Item("list", <<>>,
                     << Item("dict", <<"a">>, << Item("NoneType", <<>>, <<>>, <<>>) >>, <<>>),
                        Item("list", <<>>, << Item("int", <<>>, <<>>, <<"1">>),
                                              Item("int", <<>>, <<>>, <<"2">>) >>, <<>>) >>,
                     <<>>),
                Item("dict", <<>>, <<>>, <<>>),
                Item("int", <<>>, <<>>, <<"5">>) },
          default \in {RaiseIfSpecifierNotFound, Item("NoneType", <<>>, <<>>, <<>>),
                       Item("str", <<>>, <<>>, <<"d">>)} :
          lookup_call = [pc |-> "call", specifier |-> specifier,
                         collection |-> collection, default |-> default,
                         result |-> NotRun]

GetBySpecifier ==
    /\ lookup_call.pc = "call"
    /\ lookup_call' = [lookup_call EXCEPT
          !.pc = "done",
          !.result = get_by_specifier(lookup_call.specifier, lookup_call.collection,
                                      lookup_call.default)]
    /\ UNCHANGED <<f_argspec, call_args, call_kwargs, pc, outcome, first, retry_call,
                   prefix_call, debug_call, keys_call, dicts_call, files_call,
                   wrap_call>>

SpecLookup == InitLookup /\ [][GetBySpecifier]_vars

\* C24: for a legal specifier the call returns the item reached when every key
\* applies; when some step fails it returns the default, if one was given, and
\* raises ValueError otherwise; no other exception type escapes.
C24_DefaultOrValueError ==
    (lookup_call.pc = "done" /\ legal_specifier(lookup_call.specifier)) =>
        LET found == LookupLoop(FindKeys(lookup_call.specifier, 1), 1, lookup_call.collection)
        IN  IF found.kind = "returned"
            THEN lookup_call.result = found
            ELSE IF lookup_call.default = RaiseIfSpecifierNotFound
            THEN lookup_call.result.kind = "raised"
                   /\ lookup_call.result.exception.type = "ValueError"
            ELSE lookup_call.result = Returns(lookup_call.default)

---------------------------------------------------------------------------
\* src/tdx/inspectcall.py, src/tdx/decorators.py: a decorator intercepts a
\* call of f with args and kwargs and hands it to a resolver, as
\* get_callargs(f, *args, **kwargs) or as
\* callargs_from_argspec(f_argspec, *args, **kwargs).

InitIntercept ==
    /\ IdleExcept({"resolver"})
    \* def apply(f, x), def g(x, y=2), def h(x, **fkwargs), def k(f_argspec=None)
    /\ f_argspec \in
          {[args |-> <<"f", "x">>, varargs |-> None, keywords |-> None, defaults |-> <<>>],
           [args |-> <<"x", "y">>, varargs |-> None, keywords |-> None, defaults |-> <<"2">>],
           [args |-> <<"x">>, varargs |-> None, keywords |-> "fkwargs", defaults |-> <<>>],
           [args |-> <<"f_argspec">>, varargs |-> None, keywords |-> None,
            defaults |-> <<None>>]}
    /\ call_args \in {<<>>, <<"1">>, <<"1", "2", "3">>}
    /\ call_kwargs \in
          {<<>>, [k \in {"x"} |-> "1"], [k \in {"y"} |-> "3"], [k \in {"f"} |-> "g"],
           [k \in {"f", "x"} |-> "1"], [k \in {"f_argspec"} |-> "3"]}
    /\ pc = "call"
    /\ outcome = NotCalled
    /\ first = NoFirst

\* arguments = get_callargs(f, *args, **kwargs)
InterceptGetCallargs ==
    /\ pc = "call"
    /\ outcome' = get_callargs(f_argspec, call_args, call_kwargs)
    /\ pc' = "get_callargs"
    /\ UNCHANGED <<f_argspec, call_args, call_kwargs, first>>
    /\ UNCHANGED <<retry_call, prefix_call, debug_call, keys_call, dicts_call,
                   files_call, wrap_call, lookup_call>>

\* arguments = callargs_from_argspec(f_argspec, *args, **kwargs)
InterceptCallargsFromArgspec ==
    /\ pc = "call"
    /\ outcome' = callargs_from_argspec(f_argspec, call_args, call_kwargs)
    /\ pc' = "callargs_from_argspec"
    /\ UNCHANGED <<f_argspec, call_args, call_kwargs, first>>
    /\ UNCHANGED <<retry_call, prefix_call, debug_call, keys_call, dicts_call,
                   files_call, wrap_call, lookup_call>>

SpecIntercept == InitIntercept /\ [][InterceptGetCallargs \/ InterceptCallargsFromArgspec]_vars

\* C26: both resolvers return a mapping for every intercepted call, also when
\* a keyword of the call is named like the resolver's own first parameter.
C26_KeywordsAreData ==
    pc \in {"get_callargs", "callargs_from_argspec"} => outcome.kind = "returned"

---------------------------------------------------------------------------
\* src/tdxutil/reflection.py and src/tdx/inspectcall.py: the two resolvers on
\* the same call, get_arguments(f, call_args, call_kwargs) and
\* callargs_from_argspec(f_argspec, *call_args, **call_kwargs).  A list and a
\* tuple are both a sequence here.

ResolveBoth ==
    /\ pc = "call"
    /\ outcome' = [kind |-> "both",
                   old |-> get_arguments(f_argspec, call_args, call_kwargs),
                   new |-> callargs_from_argspec(f_argspec, call_args, call_kwargs)]
    /\ pc' = "done"
    /\ UNCHANGED <<f_argspec, call_args, call_kwargs, first>>
    /\ UNCHANGED <<retry_call, prefix_call, debug_call, keys_call, dicts_call,
                   files_call, wrap_call, lookup_call>>

SpecBoth == Init /\ [][ResolveBoth]_vars

\* C25: for a signature that declares at least one default the two resolvers
\* return, for every call, mappings with the same keys and the same values.
C25_ResolversAgree ==
    (pc = "done" /\ Len(f_argspec.defaults) >= 1) =>
        /\ outcome.old.kind = "returned"
        /\ outcome.new.kind = "returned"
        /\ outcome.old.arguments = outcome.new.arguments

---------------------------------------------------------------------------
\* src/tdx/decorators.py: retry, with every invocation of f and every sleep
\* coming to an end: the loop of the wrapper goes on as long as it can.

SpecRetryLive == SpecRetry /\ WF_vars(RetryReturns \/ RetryRaises)

\* C27: for every integer attempts and every pattern of successes and failures
\* of f the call ends, returning or raising, and f is invoked at most
\* max(1, attempts) times.
C27_Terminates ==
    /\ [](retry_call.calls <= IF retry_call.attempts > 1 THEN retry_call.attempts ELSE 1)
    /\ <>RetryEnded

C27_Witness ==
    /\ retry_call.pc = "raised"
    /\ retry_call.attempts = 0 - 1
    /\ retry_call.calls = 1
    /\ retry_call.last = "listed"
    /\ retry_call.failed = 1

---------------------------------------------------------------------------
\* src/tdx/exceptions.py: error prefix blocks nested in one another,
\*     with error_prefix(p1): with error_prefix(p2): ... <body>
\* prefixes lists p1 (outermost) .. pn (innermost); the body ends, then what it
\* raised or returned leaves the blocks one by one, the innermost first.

InitNested ==
    /\ IdleExcept({"prefix"})
    /\ \E prefixes \in SeqsUpTo({"p", "q"}, MaxDepth) \ {<<>>} :
          prefix_call = [pc |-> "body", prefixes |-> prefixes, inside |-> Len(prefixes),
                         body |-> NotRun, result |-> NotRun]

\* the body completes
NestedBodyReturns ==
    /\ prefix_call.pc = "body"
    /\ \E v \in ReturnValues :
          prefix_call' = [prefix_call EXCEPT
                             !.pc = "leaving", !.body = Returns(v), !.result = Returns(v)]
    /\ UNCHANGED <<f_argspec, call_args, call_kwargs, pc, outcome, first, retry_call,
                   debug_call, keys_call, dicts_call, files_call, wrap_call,
                   lookup_call>>

\* the body raises
NestedBodyRaises ==
    /\ prefix_call.pc = "body"
    /\ \E e \in BodyExceptions :
          prefix_call' = [prefix_call EXCEPT
                             !.pc = "leaving", !.body = Raises(e), !.result = Raises(e)]
    /\ UNCHANGED <<f_argspec, call_args, call_kwargs, pc, outcome, first, retry_call,
                   debug_call, keys_call, dicts_call, files_call, wrap_call,
                   lookup_call>>

\* the innermost block that is still open is left
LeaveBlock ==
    /\ prefix_call.pc = "leaving"
    /\ prefix_call' =
           [prefix_call EXCEPT
               !.pc = IF prefix_call.inside = 1 THEN "done" ELSE "leaving",
               !.inside = @ - 1,
               !.result = error_prefix(prefix_call.prefixes[prefix_call.inside], @)]
    /\ UNCHANGED <<f_argspec, call_args, call_kwargs, pc, outcome, first, retry_call,
                   debug_call, keys_call, dicts_call, files_call, wrap_call,
                   lookup_call>>

SpecNested == InitNested /\ [][NestedBodyReturns \/ NestedBodyRaises \/ LeaveBlock]_vars

\* p1 + ":\n" + p2 + ":\n" + ... + pn + ":\n"
RECURSIVE Chain(_)
Chain(prefixes) ==
    IF prefixes = <<>> THEN "" ELSE Head(prefixes) \o ":\n" \o Chain(Tail(prefixes))

\* C29: an Exception with first argument m raised inside blocks with the
\* prefixes p1 (outermost) .. pn (innermost) reaches the caller as the same
\* exception with first argument p1 + ":\n" + ... + pn + ":\n" + m, each prefix
\* once, and with its other arguments unchanged.
C29_OutermostFirst ==
    (BodyFailed /\ Len(prefix_call.body.exception.args) >= 1) =>
        prefix_call.result =
            Raises([prefix_call.body.exception EXCEPT
                       !.args = <<Chain(prefix_call.prefixes) \o @[1]>> \o Tail(@)])

C29_Witness ==
    /\ prefix_call.pc = "done"
    /\ prefix_call.prefixes = <<"p", "q", "p">>
    /\ prefix_call.body = Raises([id |-> 1, type |-> "KeyError", args |-> <<"m", "n">>])
    /\ prefix_call.result =
           Raises([id |-> 1, type |-> "KeyError", args |-> <<"p:\nq:\np:\nm", "n">>])

=============================================================================
